---------------------------- MODULE Spec2Model ----------------------------
(***************************************************************************)
(* Text accumulation of the sign-language recognizer.                      *)
(*                                                                         *)
(* Two implementations are modelled side by side:                          *)
(*   web      SignLanguageRecognizer   (src/webapp/sign_language_recognizer.py) *)
(*   desktop  AuthenticatedApplication (src/final_complete_auth.py)        *)
(* A run is a run of ONE of the two programs (variable app); the fields    *)
(* prev_char, count and ten_prev_char carry the same name in both classes  *)
(* and are shared, the other fields keep the name of their class.          *)
(*                                                                         *)
(* A Python string is a sequence of one-character strings; a token is a    *)
(* TLA+ string ("A", " ", "next", "Backspace").                            *)
(***************************************************************************)
EXTENDS Integers, Sequences, FiniteSets, TLC

\* ------------------------------------------------------------------ bounds
MaxTicks == 5
MaxText == 3
MaxApplies == 1
MaxActions == 2
MaxRingTicks == 12
MaxFrames == 5
MaxThreadTicks == 4

\* ------------------------------------------------------- program constants
HistLen == 10
NumSuggestions == 4

Letters == {"A", "S"}
Tokens == Letters \cup {" ", "next", "Backspace"}
RingTokens == {"A", "next"}
Special == {"Backspace", " ", "next"}

\* ------------------------------------------------------- string primitives
MaxOf(S) == CHOOSE x \in S : \A y \in S : y <= x
MinOf(S) == CHOOSE x \in S : \A y \in S : x <= y

\* str.upper(), on the alphabet of the model
UpperChar(c) ==
    CASE c = "a" -> "A"
      [] c = "b" -> "B"
      [] c = "s" -> "S"
      [] OTHER -> c
Upper(s) == [i \in 1..Len(s) |-> UpperChar(s[i])]

LowerChar(c) ==
    CASE c = "A" -> "a"
      [] c = "B" -> "b"
      [] c = "S" -> "s"
      [] c = "D" -> "d"
      [] c = "E" -> "e"
      [] c = "K" -> "k"
      [] c = "L" -> "l"
      [] c = "O" -> "o"
      [] c = "P" -> "p"
      [] c = "R" -> "r"
      [] OTHER -> c
Lower(s) == [i \in 1..Len(s) |-> LowerChar(s[i])]

\* s.rfind(" "): 0-based index of the last space, -1 when there is none
RFindSpace(s) ==
    LET I == {i \in 1..Len(s) : s[i] = " "}
    IN  IF I = {} THEN -1 ELSE MaxOf(I) - 1

\* s.find(sub, start): Python clamps a negative start to len(s)+start, >= 0
Find(s, sub, start) ==
    LET st == IF start < 0
              THEN (IF Len(s) + start < 0 THEN 0 ELSE Len(s) + start)
              ELSE start
        I == {i \in st..(Len(s) - Len(sub)) : SubSeq(s, i + 1, i + Len(sub)) = sub}
    IN  IF I = {} THEN -1 ELSE MinOf(I)

\* s[i:] for i >= 0
SliceFrom(s, i) == SubSeq(s, i + 1, Len(s))

\* s[:i], i possibly negative
SliceTo(s, i) ==
    LET e == IF i < 0
             THEN (IF Len(s) + i < 0 THEN 0 ELSE Len(s) + i)
             ELSE (IF i > Len(s) THEN Len(s) ELSE i)
    IN  SubSeq(s, 1, e)

\* s.rstrip()
RStrip(s) ==
    LET I == {i \in 1..Len(s) : s[i] # " "}
    IN  IF I = {} THEN << >> ELSE SubSeq(s, 1, MaxOf(I))

\* len(s.strip()) != 0
NonBlank(s) == \E i \in 1..Len(s) : s[i] # " "

\* s[:-1]
DropLast(s) == SliceTo(s, -1)

\* the characters a token contributes when it is concatenated to the text
TokChars(tok) ==
    IF tok = "PRED_ERROR"
    THEN <<"P", "R", "E", "D", "_", "E", "R", "R", "O", "R">>
    ELSE <<tok>>

Blank == <<" ">>
BlankSuggestions == [i \in 1..NumSuggestions |-> Blank]

\* ten_prev_char[i % 10]
Slot(hist, i) == hist[i % HistLen]


\* ------------------------------------------------ the external dictionary
\* enchant's Dict.suggest(word): an opaque total function of the word; the
\* model fixes one that returns 4, 3, 2, 1 or 0 lower-case suggestions.
DictSuggest(w) ==
    LET lw == Lower(w)
    IN  IF w = <<"S">> THEN <<lw, lw \o <<"b">>, lw \o <<"s">>>>
        ELSE IF Len(w) = 1 THEN <<lw, lw \o <<"b">>, lw \o <<"s">>, <<"a", " ">> \o lw>>
        ELSE IF Len(w) = 2 THEN <<lw, lw \o <<"s">>>>
        ELSE IF Len(w) = 3 THEN <<lw>>
        ELSE << >>

\* suggestions a client may post to /api/text/suggest
ApiSuggestions == {<<"a", "b">>, <<"a", " ", "b">>}

\* ------------------------------------------------------------ accumulators
\* mutant of RisingEdge: the debounce test on the previous token dropped
RisingEdge_NoDebounce(ch, prev, t) == ch = t

\* "token == t and prev_token != t": the first tick of a run of t
RisingEdge(ch, prev, t) == ch = t /\ prev # t

\* mutant of Lookback: the slot one position later, ten_prev_char[(count-1) % 10]
Lookback_OneLater(hist, cnt) == Slot(hist, cnt - 1)


\* mutant of Fallback: the slot one position earlier, ten_prev_char[(count-1) % 10]
Fallback_OneEarlier(hist, cnt) == Slot(hist, cnt - 1)

\* the slot examined on a confirmation: ten_prev_char[(count-2) % 10],
\* count not yet incremented for the current tick
Lookback(hist, cnt) == Slot(hist, cnt - 2)

\* the fallback slot: ten_prev_char[count % 10]
Fallback(hist, cnt) == Slot(hist, cnt)

\* mutant of WebTruncate: the guard of the desktop confirmation, len > 1
WebTruncate_LenAbove1(text) == IF Len(text) > 1 THEN DropLast(text) ELSE text

\* web: if len(self.recognized_text) > 0: self.recognized_text[:-1]
WebTruncate(text) == IF Len(text) > 0 THEN DropLast(text) ELSE text

\* web: self.recognized_text += token
WebAppend(text, tok) == text \o TokChars(tok)

\* web update_text_with_character, the branches that change recognized_text
WebAccumulate(text, prev, cnt, hist, ch) ==
    IF RisingEdge(ch, prev, "next")
    THEN IF Lookback(hist, cnt) # "next"
         THEN IF Lookback(hist, cnt) = "Backspace"
              THEN WebTruncate(text)
              ELSE IF Lookback(hist, cnt) \notin Special
                   THEN WebAppend(text, Lookback(hist, cnt))
                   ELSE text
         ELSE IF Fallback(hist, cnt) \notin Special
              THEN WebAppend(text, Fallback(hist, cnt))
              ELSE text
    ELSE IF RisingEdge(ch, prev, " ")
    THEN text \o <<" ">>
    ELSE IF RisingEdge(ch, prev, "Backspace")
    THEN WebTruncate(text)
    ELSE text

\* desktop: if len(self.str) > 1 (confirmed Backspace)
DesktopConfirmTruncate(text) == IF Len(text) > 1 THEN DropLast(text) ELSE text

\* desktop: if len(self.str) > 0 (Backspace token)
DesktopTruncate(text) == IF Len(text) > 0 THEN DropLast(text) ELSE text


\* mutant of DesktopAppend: the text is not stripped before the token is added
DesktopAppend_NoStrip(text, tok) == text \o TokChars(tok)

\* desktop: self.str = self.str.rstrip() + token
DesktopAppend(text, tok) == RStrip(text) \o TokChars(tok)

\* desktop predict, "if ch1 == next and prev_char != next" block
DesktopConfirm(text, prev, cnt, hist, ch) ==
    IF RisingEdge(ch, prev, "next")
    THEN IF Lookback(hist, cnt) # "next"
         THEN IF Lookback(hist, cnt) = "Backspace"
              THEN DesktopConfirmTruncate(text)
              ELSE IF Lookback(hist, cnt) \notin Special
                   THEN DesktopAppend(text, Lookback(hist, cnt))
                   ELSE text
         ELSE IF Fallback(hist, cnt) \notin Special
              THEN DesktopAppend(text, Fallback(hist, cnt))
              ELSE text
    ELSE text

\* desktop predict, "Handle backspace" block
DesktopBackspace(text, prev, ch) ==
    IF RisingEdge(ch, prev, "Backspace") THEN DesktopTruncate(text) ELSE text

\* desktop predict, "Handle space" block
DesktopSpace(text, prev, ch) ==
    IF RisingEdge(ch, prev, " ") THEN text \o <<" ">> ELSE text

\* mutant of DesktopWordBreak: the test for an empty text dropped
DesktopWordBreak_NoEmptyGuard(text, prev, ch) ==
    IF ch \in {"S", "T"} /\ prev \notin {"S", "T", " "}
    THEN IF Len(text) = 0 \/ text[Len(text)] # " "
         THEN text \o <<" ">>
         ELSE text
    ELSE text

\* desktop predict, "Add space for specific gestures" block
DesktopWordBreak(text, prev, ch) ==
    IF ch \in {"S", "T"} /\ prev \notin {"S", "T", " "}
    THEN IF Len(text) > 0 /\ text[Len(text)] # " "
         THEN text \o <<" ">>
         ELSE text
    ELSE text

\* desktop predict, the four blocks in source order
DesktopAccumulate(text, prev, cnt, hist, ch) ==
    DesktopWordBreak(
        DesktopSpace(
            DesktopBackspace(
                DesktopConfirm(text, prev, cnt, hist, ch), prev, ch), prev, ch), prev, ch)

\* ------------------------------------------------------------- suggestions
\* text[text.rfind(" ")+1:]
ActiveWord(text) == SliceFrom(text, RFindSpace(text) + 1)

\* web: for i in range(4): suggestions[i] if i < len(suggestions) else " "
WebFill(sugg) ==
    [i \in 1..NumSuggestions |-> IF i <= Len(sugg) THEN sugg[i] ELSE Blank]

\* web update_word_suggestions: the new (current_word, word_suggestions), and
\* whether self.dictionary.suggest was called
WebUpdateSuggestions(text, cw, dict, raises) ==
    IF ~dict
    THEN [current_word |-> cw, word_suggestions |-> BlankSuggestions, called |-> FALSE]
    ELSE IF NonBlank(text)
    THEN IF NonBlank(ActiveWord(text))
         THEN [current_word |-> ActiveWord(text),
               word_suggestions |-> IF raises
                                    THEN BlankSuggestions
                                    ELSE WebFill(DictSuggest(ActiveWord(text))),
               called |-> TRUE]
         ELSE [current_word |-> ActiveWord(text), word_suggestions |-> BlankSuggestions,
               called |-> FALSE]
    ELSE [current_word |-> cw, word_suggestions |-> BlankSuggestions, called |-> FALSE]

\* desktop: if lenn >= i: self.word<i> = ddd.suggest(word)[i-1]
DesktopFill(sugg, old) ==
    [i \in 1..NumSuggestions |-> IF Len(sugg) >= i THEN sugg[i] ELSE old[i]]

\* desktop predict, "Word suggestion logic": the new (word, word1..word4), and
\* whether ddd.check / ddd.suggest was called; a lookup that raises leaves
\* predict before any word<i> is assigned
DesktopUpdateSuggestions(text, w, old, raises) ==
    IF NonBlank(text)
    THEN IF NonBlank(ActiveWord(text))
         THEN [word |-> ActiveWord(text),
               words |-> IF raises THEN old ELSE DesktopFill(DictSuggest(ActiveWord(text)), old),
               called |-> TRUE]
         ELSE [word |-> ActiveWord(text), words |-> BlankSuggestions, called |-> FALSE]
    ELSE [word |-> w, words |-> old, called |-> FALSE]

\* mutant of WebApplySuggestion: the slice stops before the last space
WebApplySuggestion_DropsSpace(text, suggestion) ==
    IF RFindSpace(text) >= 0
    THEN SliceTo(text, RFindSpace(text)) \o Upper(suggestion)
    ELSE Upper(suggestion)

\* web apply_word_suggestion: the new recognized_text
WebApplySuggestion(text, suggestion) ==
    IF RFindSpace(text) >= 0
    THEN SliceTo(text, RFindSpace(text) + 1) \o Upper(suggestion)
    ELSE Upper(suggestion)

\* desktop action1..action4: the new str
DesktopApplySuggestion(text, w, suggestion) ==
    SliceTo(text, Find(text, w, RFindSpace(text))) \o Upper(suggestion)

\* -------------------------------------------------------------- classifier
\* A landmark list is a function from 0..20 (fewer when the detector returned
\* a short list) to <<x, y>>: pts[i][1] is Python's pts[i][0], pts[i][2] is
\* pts[i][1].  A coarse class is a number 0..7; a classified token is a string.

\* distance(x, y) ** 2, an integer on integer pixel coordinates
DistSq(p, q) == (p[1] - q[1]) * (p[1] - q[1]) + (p[2] - q[2]) * (p[2] - q[2])

\* distance(p, q) - distance(r, s) < d for d >= 0, without the square roots:
\* sqrt(a) < d + sqrt(b)  iff  a - b - d*d < 2*d*sqrt(b)
DistanceGapBelow(p, q, r, s, d) ==
    LET g == DistSq(p, q) - DistSq(r, s) - d * d
    IN  g < 0 \/ g * g < 4 * d * d * DistSq(r, s)

\* the value the desktop predict returns when it leaves ch1 the integer 1
Int1 == "int 1"

\* predict, line 711
fg == 13

\* ------------------------------------------- desktop predict: the cascade
\* One operator per "if pl in l: if <condition>: ch1 = k" of predict. From the
\* third test on the pair is recomputed from the current ch1: these are
\* written as a function of ch1 applied to the class so far.
\* lines 484-487 condition for [Aemnst]
Rule484(pl, c, pts) ==
    IF /\ pl \in {<<1, 0>>, <<1, 1>>, <<1, 4>>, <<1, 5>>, <<1, 6>>, <<2, 0>>, <<2, 5>>, <<2, 6>>, <<3, 0>>, <<3, 2>>, <<3, 5>>, <<3, 6>>, <<4, 1>>, <<4, 5>>, <<4, 6>>, <<5, 1>>, <<5, 2>>, <<5, 3>>, <<5, 4>>, <<5, 6>>, <<5, 7>>, <<6, 0>>, <<6, 1>>, <<6, 2>>, <<6, 3>>, <<6, 4>>, <<6, 5>>, <<6, 6>>, <<6, 7>>, <<7, 0>>, <<7, 1>>, <<7, 2>>, <<7, 5>>, <<7, 6>>}
       /\ (pts[6][2] < pts[8][2] /\ pts[10][2] < pts[12][2] /\ pts[14][2] < pts[16][2] /\ pts[18][2] < pts[20][2])
    THEN 0 ELSE c

\* lines 490-493 condition for [o][s]
Rule490(pl, c, pts) ==
    IF /\ pl \in {<<2, 1>>, <<2, 2>>}
       /\ (pts[5][1] < pts[4][1])
    THEN 0 ELSE c

\* lines 497-501 condition for [c0][aemnst]
Rule497(c, ch2, pts) ==
    [ch1 \in 0..7 |->
        IF /\ <<ch1, ch2>> \in {<<0, 0>>, <<0, 1>>, <<0, 2>>, <<0, 5>>, <<0, 6>>, <<0, 7>>, <<5, 2>>, <<7, 1>>, <<7, 6>>}
           /\ (pts[0][1] > pts[8][1] /\ pts[0][1] > pts[4][1] /\ pts[0][1] > pts[12][1] /\ pts[0][1] > pts[16][1] /\ pts[0][1] > pts[20][1]) /\ pts[5][1] > pts[4][1]
        THEN 2 ELSE ch1][c]

\* lines 504-508 condition for [c0][aemnst]
Rule504(c, ch2, pts) ==
    [ch1 \in 0..7 |->
        IF /\ <<ch1, ch2>> \in {<<6, 0>>, <<6, 2>>, <<6, 6>>}
           /\ DistSq(pts[8], pts[16]) < 52 * 52
        THEN 2 ELSE ch1][c]

\* lines 512-516 condition for [gh][bdfikruvw]
Rule512(c, ch2, pts) ==
    [ch1 \in 0..7 |->
        IF /\ <<ch1, ch2>> \in {<<1, 0>>, <<1, 3>>, <<1, 4>>, <<1, 5>>, <<1, 6>>}
           /\ pts[6][2] > pts[8][2] /\ pts[14][2] < pts[16][2] /\ pts[18][2] < pts[20][2] /\ pts[0][1] < pts[8][1] /\ pts[0][1] < pts[12][1] /\ pts[0][1] < pts[16][1] /\ pts[0][1] < pts[20][1]
        THEN 3 ELSE ch1][c]

\* lines 519-523 con for [gh][l]
Rule519(c, ch2, pts) ==
    [ch1 \in 0..7 |->
        IF /\ <<ch1, ch2>> \in {<<4, 1>>, <<4, 3>>, <<4, 5>>, <<4, 6>>, <<4, 7>>}
           /\ pts[4][1] > pts[0][1]
        THEN 3 ELSE ch1][c]

\* lines 526-530 con for [gh][pqz]
Rule526(c, ch2, pts) ==
    [ch1 \in 0..7 |->
        IF /\ <<ch1, ch2>> \in {<<5, 0>>, <<5, 1>>, <<5, 2>>, <<5, 3>>, <<5, 4>>, <<5, 5>>, <<5, 7>>}
           /\ pts[2][2] + 15 < pts[16][2]
        THEN 3 ELSE ch1][c]

\* lines 533-537 con for [l][x]
Rule533(c, ch2, pts) ==
    [ch1 \in 0..7 |->
        IF /\ <<ch1, ch2>> \in {<<6, 1>>, <<6, 2>>, <<6, 4>>}
           /\ DistSq(pts[4], pts[11]) > 55 * 55
        THEN 4 ELSE ch1][c]

\* lines 540-544 con for [l][d]
Rule540(c, ch2, pts) ==
    [ch1 \in 0..7 |->
        IF /\ <<ch1, ch2>> \in {<<1, 1>>, <<1, 4>>, <<1, 6>>}
           /\ (DistSq(pts[4], pts[11]) > 50 * 50) /\ (pts[6][2] > pts[8][2] /\ pts[10][2] < pts[12][2] /\ pts[14][2] < pts[16][2] /\ pts[18][2] < pts[20][2])
        THEN 4 ELSE ch1][c]

\* lines 547-551 con for [l][gh]
Rule547(c, ch2, pts) ==
    [ch1 \in 0..7 |->
        IF /\ <<ch1, ch2>> \in {<<3, 4>>, <<3, 6>>}
           /\ (pts[4][1] < pts[0][1])
        THEN 4 ELSE ch1][c]

\* lines 554-558 con for [l][c0]
Rule554(c, ch2, pts) ==
    [ch1 \in 0..7 |->
        IF /\ <<ch1, ch2>> \in {<<2, 2>>, <<2, 4>>, <<2, 5>>}
           /\ (pts[1][1] < pts[12][1])
        THEN 4 ELSE ch1][c]

\* lines 561-565 con for [gh][z]
Rule561(c, ch2, pts) ==
    [ch1 \in 0..7 |->
        IF /\ <<ch1, ch2>> \in {<<3, 4>>, <<3, 5>>, <<3, 6>>}
           /\ (pts[6][2] > pts[8][2] /\ pts[10][2] < pts[12][2] /\ pts[14][2] < pts[16][2] /\ pts[18][2] < pts[20][2]) /\ pts[4][2] > pts[10][2]
        THEN 5 ELSE ch1][c]

\* lines 568-572 con for [gh][pq]
Rule568(c, ch2, pts) ==
    [ch1 \in 0..7 |->
        IF /\ <<ch1, ch2>> \in {<<3, 1>>, <<3, 2>>, <<3, 6>>}
           /\ pts[4][2] + 17 > pts[8][2] /\ pts[4][2] + 17 > pts[12][2] /\ pts[4][2] + 17 > pts[16][2] /\ pts[4][2] + 17 > pts[20][2]
        THEN 5 ELSE ch1][c]

\* lines 575-579 con for [l][pqz]
Rule575(c, ch2, pts) ==
    [ch1 \in 0..7 |->
        IF /\ <<ch1, ch2>> \in {<<4, 2>>, <<4, 4>>, <<4, 5>>, <<7, 0>>, <<7, 5>>, <<7, 6>>}
           /\ pts[4][1] > pts[0][1]
        THEN 5 ELSE ch1][c]

\* lines 582-586 con for [pqz][aemnst]
Rule582(c, ch2, pts) ==
    [ch1 \in 0..7 |->
        IF /\ <<ch1, ch2>> \in {<<0, 0>>, <<0, 1>>, <<0, 2>>, <<0, 3>>, <<0, 4>>, <<0, 5>>, <<0, 6>>, <<0, 7>>, <<2, 7>>}
           /\ pts[0][1] < pts[8][1] /\ pts[0][1] < pts[12][1] /\ pts[0][1] < pts[16][1] /\ pts[0][1] < pts[20][1]
        THEN 5 ELSE ch1][c]

\* lines 589-593 con for [pqz][yj]
Rule589(c, ch2, pts) ==
    [ch1 \in 0..7 |->
        IF /\ <<ch1, ch2>> \in {<<5, 2>>, <<5, 6>>, <<5, 7>>}
           /\ pts[3][1] < pts[0][1]
        THEN 7 ELSE ch1][c]

\* lines 596-600 con for [l][yj]
Rule596(c, ch2, pts) ==
    [ch1 \in 0..7 |->
        IF /\ <<ch1, ch2>> \in {<<4, 1>>, <<4, 2>>, <<4, 4>>, <<4, 5>>, <<4, 6>>, <<4, 7>>}
           /\ pts[6][2] < pts[8][2]
        THEN 7 ELSE ch1][c]

\* lines 603-607 con for [x][yj]
Rule603(c, ch2, pts) ==
    [ch1 \in 0..7 |->
        IF /\ <<ch1, ch2>> \in {<<0, 0>>, <<0, 1>>, <<0, 7>>, <<6, 1>>, <<6, 4>>, <<6, 5>>, <<6, 6>>, <<6, 7>>}
           /\ pts[18][2] > pts[20][2]
        THEN 7 ELSE ch1][c]

\* lines 610-614 condition for [x][aemnst]
Rule610(c, ch2, pts) ==
    [ch1 \in 0..7 |->
        IF /\ <<ch1, ch2>> \in {<<0, 1>>, <<0, 2>>, <<0, 3>>, <<0, 4>>, <<0, 6>>}
           /\ pts[5][1] > pts[16][1]
        THEN 6 ELSE ch1][c]

\* lines 617-621 condition for [yj][x]
Rule617(c, ch2, pts) ==
    [ch1 \in 0..7 |->
        IF /\ <<ch1, ch2>> \in {<<7, 2>>}
           /\ pts[18][2] < pts[20][2] /\ pts[8][2] < pts[10][2]
        THEN 6 ELSE ch1][c]

\* lines 624-628 condition for [c0][x]
Rule624(c, ch2, pts) ==
    [ch1 \in 0..7 |->
        IF /\ <<ch1, ch2>> \in {<<2, 0>>, <<2, 1>>, <<2, 2>>, <<2, 6>>, <<2, 7>>}
           /\ DistSq(pts[8], pts[16]) > 50 * 50
        THEN 6 ELSE ch1][c]

\* lines 631-635 con for [l][x]
Rule631(c, ch2, pts) ==
    [ch1 \in 0..7 |->
        IF /\ <<ch1, ch2>> \in {<<4, 1>>, <<4, 2>>, <<4, 4>>, <<4, 6>>}
           /\ DistSq(pts[4], pts[11]) < 60 * 60
        THEN 6 ELSE ch1][c]

\* lines 638-642 con for [x][d]
Rule638(c, ch2, pts) ==
    [ch1 \in 0..7 |->
        IF /\ <<ch1, ch2>> \in {<<1, 0>>, <<1, 2>>, <<1, 4>>, <<1, 6>>}
           /\ pts[5][1] - pts[4][1] - 15 > 0
        THEN 6 ELSE ch1][c]

\* lines 645-649 con for [b][pqz]
Rule645(c, ch2, pts) ==
    [ch1 \in 0..7 |->
        IF /\ <<ch1, ch2>> \in {<<0, 2>>, <<5, 0>>, <<5, 1>>, <<5, 4>>, <<5, 5>>, <<5, 6>>, <<6, 1>>, <<6, 3>>, <<6, 4>>, <<6, 6>>, <<7, 1>>, <<7, 2>>, <<7, 4>>, <<7, 5>>, <<7, 6>>}
           /\ (pts[6][2] > pts[8][2] /\ pts[10][2] > pts[12][2] /\ pts[14][2] > pts[16][2] /\ pts[18][2] > pts[20][2])
        THEN 1 ELSE ch1][c]

\* lines 652-656 con for [f][pqz]
Rule652(c, ch2, pts) ==
    [ch1 \in 0..7 |->
        IF /\ <<ch1, ch2>> \in {<<0, 2>>, <<0, 3>>, <<0, 6>>, <<2, 2>>, <<4, 1>>, <<4, 2>>, <<4, 6>>, <<6, 0>>, <<6, 1>>, <<6, 2>>, <<6, 4>>, <<6, 6>>, <<7, 1>>, <<7, 2>>, <<7, 4>>, <<7, 5>>, <<7, 6>>}
           /\ (pts[6][2] < pts[8][2] /\ pts[10][2] > pts[12][2] /\ pts[14][2] > pts[16][2] /\ pts[18][2] > pts[20][2])
        THEN 1 ELSE ch1][c]

\* lines 658-662 
Rule658(c, ch2, pts) ==
    [ch1 \in 0..7 |->
        IF /\ <<ch1, ch2>> \in {<<4, 1>>, <<4, 2>>, <<4, 4>>, <<4, 6>>, <<6, 0>>, <<6, 1>>}
           /\ (pts[10][2] > pts[12][2] /\ pts[14][2] > pts[16][2] /\ pts[18][2] > pts[20][2])
        THEN 1 ELSE ch1][c]

\* lines 665-669 con for [d][pqz]
Rule665(c, ch2, pts) ==
    [ch1 \in 0..7 |->
        IF /\ <<ch1, ch2>> \in {<<3, 0>>, <<3, 1>>, <<3, 4>>, <<3, 5>>, <<5, 0>>, <<5, 1>>, <<5, 4>>, <<5, 5>>, <<7, 6>>}
           /\ ((pts[6][2] > pts[8][2] /\ pts[10][2] < pts[12][2] /\ pts[14][2] < pts[16][2] /\ pts[18][2] < pts[20][2]) /\ (pts[2][1] < pts[0][1]) /\ pts[4][2] > pts[14][2])
        THEN 1 ELSE ch1][c]

\* lines 671-675 
Rule671(c, ch2, pts) ==
    [ch1 \in 0..7 |->
        IF /\ <<ch1, ch2>> \in {<<4, 1>>, <<4, 2>>, <<4, 4>>}
           /\ (DistSq(pts[4], pts[11]) < 50 * 50) /\ (pts[6][2] > pts[8][2] /\ pts[10][2] < pts[12][2] /\ pts[14][2] < pts[16][2] /\ pts[18][2] < pts[20][2])
        THEN 1 ELSE ch1][c]

\* lines 677-681 
Rule677(c, ch2, pts) ==
    [ch1 \in 0..7 |->
        IF /\ <<ch1, ch2>> \in {<<3, 0>>, <<3, 1>>, <<3, 4>>, <<3, 5>>, <<3, 6>>}
           /\ ((pts[6][2] > pts[8][2] /\ pts[10][2] < pts[12][2] /\ pts[14][2] < pts[16][2] /\ pts[18][2] < pts[20][2]) /\ (pts[2][1] < pts[0][1]) /\ pts[14][2] < pts[4][2])
        THEN 1 ELSE ch1][c]

\* lines 683-687 
Rule683(c, ch2, pts) ==
    [ch1 \in 0..7 |->
        IF /\ <<ch1, ch2>> \in {<<6, 1>>, <<6, 2>>, <<6, 4>>, <<6, 6>>}
           /\ pts[5][1] - pts[4][1] - 15 < 0
        THEN 1 ELSE ch1][c]

\* lines 690-694 con for [i][pqz]
Rule690(c, ch2, pts) ==
    [ch1 \in 0..7 |->
        IF /\ <<ch1, ch2>> \in {<<0, 2>>, <<0, 3>>, <<0, 7>>, <<5, 0>>, <<5, 1>>, <<5, 4>>, <<5, 5>>, <<6, 2>>, <<7, 1>>, <<7, 5>>, <<7, 6>>, <<7, 7>>}
           /\ ((pts[6][2] < pts[8][2] /\ pts[10][2] < pts[12][2] /\ pts[14][2] < pts[16][2] /\ pts[18][2] > pts[20][2]))
        THEN 1 ELSE ch1][c]

\* lines 697-701 con for [yj][bfdi]
Rule697(c, ch2, pts) ==
    [ch1 \in 0..7 |->
        IF /\ <<ch1, ch2>> \in {<<1, 0>>, <<1, 1>>, <<1, 3>>, <<1, 5>>, <<1, 6>>, <<1, 7>>}
           /\ (pts[4][1] < pts[5][1] + 15) /\ ((pts[6][2] < pts[8][2] /\ pts[10][2] < pts[12][2] /\ pts[14][2] < pts[16][2] /\ pts[18][2] > pts[20][2]))
        THEN 7 ELSE ch1][c]

\* lines 704-708 con for [uvr]
Rule704(c, ch2, pts) ==
    [ch1 \in 0..7 |->
        IF /\ <<ch1, ch2>> \in {<<3, 0>>, <<3, 5>>, <<4, 1>>, <<4, 6>>, <<5, 0>>, <<5, 1>>, <<5, 4>>, <<5, 5>>, <<7, 6>>}
           /\ ((pts[6][2] > pts[8][2] /\ pts[10][2] > pts[12][2] /\ pts[14][2] < pts[16][2] /\ pts[18][2] < pts[20][2])) /\ pts[4][2] > pts[14][2]
        THEN 1 ELSE ch1][c]

\* lines 712-716 
Rule712(c, ch2, pts) ==
    [ch1 \in 0..7 |->
        IF /\ <<ch1, ch2>> \in {<<2, 0>>, <<3, 0>>, <<3, 5>>, <<3, 6>>, <<4, 1>>, <<5, 0>>, <<5, 1>>, <<5, 5>>}
           /\ ~(pts[0][1] + fg < pts[8][1] /\ pts[0][1] + fg < pts[12][1] /\ pts[0][1] + fg < pts[16][1] /\ pts[0][1] + fg < pts[20][1]) /\ ~(pts[0][1] > pts[8][1] /\ pts[0][1] > pts[12][1] /\ pts[0][1] > pts[16][1] /\ pts[0][1] > pts[20][1]) /\ DistSq(pts[4], pts[11]) < 50 * 50
        THEN 1 ELSE ch1][c]

\* lines 718-722 
Rule718(c, ch2, pts) ==
    [ch1 \in 0..7 |->
        IF /\ <<ch1, ch2>> \in {<<0, 1>>, <<5, 0>>, <<5, 5>>}
           /\ pts[6][2] > pts[8][2] /\ pts[10][2] > pts[12][2] /\ pts[14][2] > pts[16][2]
        THEN 1 ELSE ch1][c]

\* predict, lines 480-722: the coarse class after all the overrides; the first
\* two tests read the pair computed at line 480, the others recompute it
DesktopBucket(ch1, ch2, pts) ==
    LET c01 == Rule484(<<ch1, ch2>>, ch1, pts)
        c02 == Rule490(<<ch1, ch2>>, c01, pts)
        c03 == Rule497(c02, ch2, pts)
        c04 == Rule504(c03, ch2, pts)
        c05 == Rule512(c04, ch2, pts)
        c06 == Rule519(c05, ch2, pts)
        c07 == Rule526(c06, ch2, pts)
        c08 == Rule533(c07, ch2, pts)
        c09 == Rule540(c08, ch2, pts)
        c10 == Rule547(c09, ch2, pts)
        c11 == Rule554(c10, ch2, pts)
        c12 == Rule561(c11, ch2, pts)
        c13 == Rule568(c12, ch2, pts)
        c14 == Rule575(c13, ch2, pts)
        c15 == Rule582(c14, ch2, pts)
        c16 == Rule589(c15, ch2, pts)
        c17 == Rule596(c16, ch2, pts)
        c18 == Rule603(c17, ch2, pts)
        c19 == Rule610(c18, ch2, pts)
        c20 == Rule617(c19, ch2, pts)
        c21 == Rule624(c20, ch2, pts)
        c22 == Rule631(c21, ch2, pts)
        c23 == Rule638(c22, ch2, pts)
        c24 == Rule645(c23, ch2, pts)
        c25 == Rule652(c24, ch2, pts)
        c26 == Rule658(c25, ch2, pts)
        c27 == Rule665(c26, ch2, pts)
        c28 == Rule671(c27, ch2, pts)
        c29 == Rule677(c28, ch2, pts)
        c30 == Rule683(c29, ch2, pts)
        c31 == Rule690(c30, ch2, pts)
        c32 == Rule697(c31, ch2, pts)
        c33 == Rule704(c32, ch2, pts)
        c34 == Rule712(c33, ch2, pts)
        c35 == Rule718(c34, ch2, pts)
    IN  c35

\* predict, lines 724-735: independent ifs, the last one that holds decides
DesktopGroup0(pts) ==
    IF pts[4][1] > pts[6][1] /\ pts[4][1] > pts[10][1] /\ pts[4][2] < pts[18][2] /\ pts[4][2] < pts[14][2]
    THEN "N"
    ELSE IF pts[4][1] > pts[6][1] /\ pts[4][1] > pts[10][1] /\ pts[4][1] > pts[14][1] /\ pts[4][2] < pts[18][2]
    THEN "M"
    ELSE IF pts[4][2] > pts[8][2] /\ pts[4][2] > pts[12][2] /\ pts[4][2] > pts[16][2] /\ pts[4][2] > pts[20][2]
    THEN "E"
    ELSE IF pts[4][1] > pts[6][1] /\ pts[4][1] < pts[10][1] /\ pts[4][1] < pts[14][1] /\ pts[4][1] < pts[18][1] /\ pts[4][2] < pts[14][2] /\ pts[4][2] < pts[18][2]
    THEN "T"
    ELSE IF pts[4][1] < pts[6][1] /\ pts[4][1] < pts[10][1] /\ pts[4][1] < pts[14][1] /\ pts[4][1] < pts[18][1]
    THEN "A"
    ELSE "S"

\* predict, lines 770-788: independent ifs, the last one that holds decides;
\* ch1 stays the integer 1 when none holds
DesktopGroup1(pts) ==
    IF (pts[8][1] > pts[12][1]) /\ (pts[6][2] > pts[8][2] /\ pts[10][2] > pts[12][2] /\ pts[14][2] < pts[16][2] /\ pts[18][2] < pts[20][2])
    THEN "R"
    ELSE IF ~DistanceGapBelow(pts[8], pts[12], pts[6], pts[10], 8) /\ (pts[6][2] > pts[8][2] /\ pts[10][2] > pts[12][2] /\ pts[14][2] < pts[16][2] /\ pts[18][2] < pts[20][2]) /\ (pts[4][2] > pts[9][2])
    THEN "V"
    ELSE IF DistanceGapBelow(pts[8], pts[12], pts[6], pts[10], 8) /\ (pts[6][2] > pts[8][2] /\ pts[10][2] > pts[12][2] /\ pts[14][2] < pts[16][2] /\ pts[18][2] < pts[20][2])
    THEN "U"
    ELSE IF (pts[6][2] > pts[8][2] /\ pts[10][2] > pts[12][2] /\ pts[14][2] < pts[16][2] /\ pts[18][2] < pts[20][2]) /\ pts[4][2] < pts[9][2]
    THEN "K"
    ELSE IF (pts[6][2] > pts[8][2] /\ pts[10][2] > pts[12][2] /\ pts[14][2] > pts[16][2] /\ pts[18][2] < pts[20][2])
    THEN "W"
    ELSE IF (pts[6][2] < pts[8][2] /\ pts[10][2] < pts[12][2] /\ pts[14][2] < pts[16][2] /\ pts[18][2] > pts[20][2])
    THEN "I"
    ELSE IF (pts[6][2] < pts[8][2] /\ pts[10][2] > pts[12][2] /\ pts[14][2] > pts[16][2] /\ pts[18][2] > pts[20][2])
    THEN "F"
    ELSE IF (pts[6][2] > pts[8][2] /\ pts[10][2] < pts[12][2] /\ pts[14][2] < pts[16][2] /\ pts[18][2] < pts[20][2])
    THEN "D"
    ELSE IF (pts[6][2] > pts[8][2] /\ pts[10][2] > pts[12][2] /\ pts[14][2] > pts[16][2] /\ pts[18][2] > pts[20][2])
    THEN "B"
    ELSE Int1

\* mutant of DesktopLetter: the three distance tests not strict
DesktopLetter_NotStrict(bucket, pts) ==
    CASE bucket = 0 -> DesktopGroup0(pts)
      [] bucket = 2 -> IF DistSq(pts[12], pts[4]) >= 42 * 42 THEN "C" ELSE "O"
      [] bucket = 3 -> IF DistSq(pts[8], pts[12]) >= 72 * 72 THEN "G" ELSE "H"
      [] bucket = 7 -> IF DistSq(pts[8], pts[4]) >= 42 * 42 THEN "Y" ELSE "J"
      [] bucket = 4 -> "L"
      [] bucket = 6 -> "X"
      [] bucket = 5 -> IF pts[4][1] > pts[12][1] /\ pts[4][1] > pts[16][1] /\ pts[4][1] > pts[20][1]
                       THEN (IF pts[8][2] < pts[5][2] THEN "Z" ELSE "Q")
                       ELSE "P"
      [] bucket = 1 -> DesktopGroup1(pts)

\* predict, lines 724-788 "Final character assignment": the letter of a coarse class
DesktopLetter(bucket, pts) ==
    CASE bucket = 0 -> DesktopGroup0(pts)
      [] bucket = 2 -> IF DistSq(pts[12], pts[4]) > 42 * 42 THEN "C" ELSE "O"
      [] bucket = 3 -> IF DistSq(pts[8], pts[12]) > 72 * 72 THEN "G" ELSE "H"
      [] bucket = 7 -> IF DistSq(pts[8], pts[4]) > 42 * 42 THEN "Y" ELSE "J"
      [] bucket = 4 -> "L"
      [] bucket = 6 -> "X"
      [] bucket = 5 -> IF pts[4][1] > pts[12][1] /\ pts[4][1] > pts[16][1] /\ pts[4][1] > pts[20][1]
                       THEN (IF pts[8][2] < pts[5][2] THEN "Z" ELSE "Q")
                       ELSE "P"
      [] bucket = 1 -> DesktopGroup1(pts)

\* predict, lines 790-793 "Handle special gesture recognition"
DesktopSpaceGesture(c, pts) ==
    IF /\ c \in {Int1, "E", "S", "X", "Y", "B"}
       /\ (pts[6][2] > pts[8][2] /\ pts[10][2] < pts[12][2] /\ pts[14][2] < pts[16][2] /\ pts[18][2] > pts[20][2])
    THEN " " ELSE c

\* mutant of DesktopNextGesture: the thumb test dropped
DesktopNextGesture_NoThumbTest(c, pts) ==
    IF /\ c \in {"E", "Y", "B"}
       /\ (pts[6][2] > pts[8][2] /\ pts[10][2] > pts[12][2] /\ pts[14][2] > pts[16][2] /\ pts[18][2] > pts[20][2])
    THEN "next" ELSE c

\* predict, lines 795-798 "Handle 'next' gesture for character confirmation"
DesktopNextGesture(c, pts) ==
    IF /\ c \in {"E", "Y", "B"}
       /\ (pts[4][1] < pts[5][1]) /\ (pts[6][2] > pts[8][2] /\ pts[10][2] > pts[12][2] /\ pts[14][2] > pts[16][2] /\ pts[18][2] > pts[20][2])
    THEN "next" ELSE c

\* predict, lines 480-798: the token of a frame
DesktopClassify(ch1, ch2, pts) ==
    DesktopNextGesture(
        DesktopSpaceGesture(DesktopLetter(DesktopBucket(ch1, ch2, pts), pts), pts), pts)

\* ------------------------------------- web _apply_gesture_rules, by stage
\* finger_up, lines 238-243: index, middle, ring, pinky
finger_up(pts) ==
    <<pts[6][2] > pts[8][2], pts[10][2] > pts[12][2],
      pts[14][2] > pts[16][2], pts[18][2] > pts[20][2]>>

\* lines 192-201: an if / elif chain, the first condition that holds decides
WebGroup0(pts) ==
    IF pts[4][1] < pts[6][1] /\ pts[4][1] < pts[10][1] /\ pts[4][1] < pts[14][1] /\ pts[4][1] < pts[18][1]
    THEN "A"
    ELSE IF pts[4][2] > pts[8][2] /\ pts[4][2] > pts[12][2] /\ pts[4][2] > pts[16][2] /\ pts[4][2] > pts[20][2]
    THEN "E"
    ELSE IF pts[4][1] > pts[6][1] /\ pts[4][1] > pts[10][1] /\ pts[4][1] > pts[14][1] /\ pts[4][2] < pts[18][2]
    THEN "M"
    ELSE IF pts[4][1] > pts[6][1] /\ pts[4][1] > pts[10][1] /\ pts[4][2] < pts[18][2] /\ pts[4][2] < pts[14][2]
    THEN "N"
    ELSE "S"

\* lines 236-263: an if / elif chain on finger_up
WebGroup1(pts) ==
    LET f == finger_up(pts)
    IN  IF f[1] /\ f[2] /\ f[3] /\ f[4] THEN "B"
        ELSE IF f[1] /\ ~f[2] /\ ~f[3] /\ ~f[4] THEN "D"
        ELSE IF ~f[1] /\ f[2] /\ f[3] /\ f[4] THEN "F"
        ELSE IF ~f[1] /\ ~f[2] /\ ~f[3] /\ f[4] THEN "I"
        ELSE IF f[1] /\ f[2] /\ f[3] /\ ~f[4] THEN "W"
        ELSE IF f[1] /\ f[2] /\ ~f[3] /\ ~f[4]
        THEN (IF DistanceGapBelow(pts[8], pts[12], pts[6], pts[10], 8) THEN "U" ELSE "V")
        ELSE IF f[1] /\ f[2] /\ ~f[3] /\ ~f[4] /\ pts[8][1] > pts[12][1] THEN "R"
        ELSE "K"

\* lines 192-265 "Group classification logic": the letter of a coarse class
WebLetter(ch1, pts) ==
    CASE ch1 = 0 -> WebGroup0(pts)
      [] ch1 = 2 -> IF DistSq(pts[12], pts[4]) > 42 * 42 THEN "C" ELSE "O"
      [] ch1 = 3 -> IF DistSq(pts[8], pts[12]) > 72 * 72 THEN "G" ELSE "H"
      [] ch1 = 4 -> "L"
      [] ch1 = 5 -> IF pts[4][1] > pts[12][1] /\ pts[4][1] > pts[16][1] /\ pts[4][1] > pts[20][1]
                    THEN (IF pts[8][2] < pts[5][2] THEN "Z" ELSE "Q")
                    ELSE "P"
      [] ch1 = 6 -> "X"
      [] ch1 = 7 -> IF DistSq(pts[8], pts[4]) > 42 * 42 THEN "Y" ELSE "J"
      [] ch1 = 1 -> WebGroup1(pts)

\* lines 267-273 "Handle special gestures"
WebNextGesture(c, pts) ==
    IF /\ c \in {"E", "Y", "B"}
       /\ (pts[4][1] < pts[5][1])
       /\ pts[6][2] > pts[8][2] /\ pts[10][2] > pts[12][2] /\ pts[14][2] > pts[16][2] /\ pts[18][2] > pts[20][2]
    THEN "next" ELSE c


\* mutant of WebSpaceGesture: the override returns "Backspace"
WebSpaceGesture_Backspace(c, pts) ==
    IF /\ c \in {"S", "T"}
       /\ Cardinality(DOMAIN pts) > 20
       /\ pts[6][2] > pts[8][2] /\ pts[10][2] < pts[12][2]
    THEN "Backspace" ELSE c

\* lines 275-279 "Check for space gesture"
WebSpaceGesture(c, pts) ==
    IF /\ c \in {"S", "T"}
       /\ Cardinality(DOMAIN pts) > 20
       /\ pts[6][2] > pts[8][2] /\ pts[10][2] < pts[12][2]
    THEN " " ELSE c

\* _apply_gesture_rules(ch1, ch2, landmarks) on a list that has every point read
apply_gesture_rules(ch1, ch2, pts) ==
    WebSpaceGesture(WebNextGesture(WebLetter(ch1, pts), pts), pts)

\* the largest short landmark list of the model: every branch of the rules
\* that reads a landmark reads one of index 4 or more first
ShortLandmarks == 4

\* predict_gesture, lines 153-178: self.model is set once the constructor has
\* returned; an IndexError of the rules is caught and becomes 'PRED_ERROR'
predict_gesture(ch1, ch2, pts) ==
    IF Cardinality(DOMAIN pts) > 20
    THEN apply_gesture_rules(ch1, ch2, pts)
    ELSE IF ch1 = 4 THEN "L"
    ELSE IF ch1 = 6 THEN "X"
    ELSE "PRED_ERROR"

\* ------------------------------------------------------------ hand poses
\* image y of a fingertip whose knuckle is at y = 100
TipY(f) == CASE f = "up" -> 70 [] f = "down" -> 130 [] f = "level" -> 100

\* a 21-point landmark list: fingers v (index, middle, ring, pinky), thumb tip
\* at thumb, index tip at x = tip8x, wrist at x = wristx
Hand(v, thumb, tip8x, wristx) ==
    [i \in 0..20 |->
        CASE i = 0 -> <<wristx, 200>>
          [] i = 1 -> <<70, 180>>
          [] i = 2 -> <<60, 160>>
          [] i = 3 -> <<55, 140>>
          [] i = 4 -> thumb
          [] i = 5 -> <<60, 120>>
          [] i = 6 -> <<60, 100>>
          [] i = 7 -> <<60, 90>>
          [] i = 8 -> <<tip8x, TipY(v[1])>>
          [] i = 9 -> <<80, 120>>
          [] i = 10 -> <<80, 100>>
          [] i = 11 -> <<80, 90>>
          [] i = 12 -> <<80, TipY(v[2])>>
          [] i = 13 -> <<100, 120>>
          [] i = 14 -> <<100, 100>>
          [] i = 15 -> <<100, 90>>
          [] i = 16 -> <<100, TipY(v[3])>>
          [] i = 17 -> <<120, 120>>
          [] i = 18 -> <<120, 100>>
          [] i = 19 -> <<120, 90>>
          [] i = 20 -> <<120, TipY(v[4])>>]

\* every finger up, down or level with its knuckle; thumb above, level with or
\* below the middle knuckle; index tip apart from, next to or across the middle tip
FingerPoses ==
    {Hand(v, thumb, tip8x, 90) :
        v \in [1..4 -> {"up", "down", "level"}],
        thumb \in {<<50, 60>>, <<110, 120>>, <<110, 140>>},
        tip8x \in {50, 52, 60, 90}}

\* the thumb tip left of, between and right of the knuckles, above and below
\* the fingertips
ThumbPoses ==
    {Hand(v, <<tx, ty>>, 60, 90) :
        v \in {<<"up", "up", "up", "up">>, <<"down", "down", "down", "down">>,
               <<"up", "down", "down", "up">>, <<"up", "down", "up", "up">>},
        tx \in {50, 70, 90, 110},
        ty \in {60, 90, 140}}

\* fingertips at distance 41, 42, 43 (thumb to middle tip, thumb to index tip)
\* and 71, 72, 73 (index tip to middle tip)
DistancePoses ==
    {Hand(<<"down", "down", "down", "down">>, <<tx, 130>>, 60, 90) :
        tx \in {101, 102, 103, 121, 122, 123}}
    \cup {Hand(<<"down", "down", "down", "down">>, <<50, 60>>, tip8x, 90) : tip8x \in {7, 8, 9}}

Poses == FingerPoses \cup ThumbPoses \cup DistancePoses

\* the two best classes of the CNN, line "pl = [ch1, ch2]"
CoarsePairs == (0..7) \X (0..7)

\* a frame: whether the detectors found a hand, the CNN's pair, the landmark
\* list, and the call that raises while it is processed ("none", "detector":
\* findHands, "cnn": self.model.predict)
Seen(pl, pts, fault) ==
    [hand |-> TRUE, crop |-> TRUE, pl |-> pl, pts |-> pts, fault |-> fault]

ClassifyFrames == {Seen(pl, pts, "none") : pl \in CoarsePairs, pts \in Poses}

\* a frame without a hand; also the value of frame when none was processed
NoFrame ==
    [hand |-> FALSE, crop |-> FALSE, pl |-> <<0, 0>>, pts |-> << >>, fault |-> "none"]

\* a frame with a hand that the second detector does not find in the cropped
\* region: pl and pts are what a classifier would be handed, and are never read
CropMiss(pl, pts) ==
    [hand |-> TRUE, crop |-> FALSE, pl |-> pl, pts |-> pts, fault |-> "none"]

\* a landmark list of n points
ShortList(n) == [i \in 0..(n - 1) |-> <<50, 50>>]

\* the frames of a run of the tick loop: no hand; a fist with the thumb at its
\* left (A in both programs); an open hand with the thumb at its left
\* ("next"); the middle finger alone up (K on the web, the integer 1 on the
\* desktop); short landmark lists; a frame on which the CNN raises; a hand that
\* the cropped region does not show; and a frame on which the hand detector raises
TickFrames ==
    {NoFrame,
     Seen(<<0, 3>>, Hand(<<"down", "down", "down", "down">>, <<50, 60>>, 60, 90), "none"),
     Seen(<<1, 2>>, Hand(<<"up", "up", "up", "up">>, <<50, 60>>, 60, 90), "none"),
     Seen(<<1, 2>>, Hand(<<"down", "up", "down", "down">>, <<110, 140>>, 60, 90), "none"),
     Seen(<<1, 2>>, ShortList(ShortLandmarks), "none"),
     Seen(<<4, 1>>, ShortList(ShortLandmarks), "none"),
     Seen(<<0, 3>>, Hand(<<"down", "down", "down", "down">>, <<50, 60>>, 60, 90), "cnn"),
     CropMiss(<<0, 3>>, Hand(<<"down", "down", "down", "down">>, <<50, 60>>, 60, 90)),
     [hand |-> FALSE, crop |-> FALSE, pl |-> <<0, 0>>, pts |-> << >>, fault |-> "detector"]}

\* ------------------------------------------------------------------- state
VARIABLES
    app,              \* which program runs: "web" or "desktop"
    dictionary,       \* self.dictionary / ddd is loaded (FALSE: None)
    prev_char,        \* self.prev_char
    count,            \* self.count
    ten_prev_char,    \* self.ten_prev_char, indexed 0..9
    recognized_text,  \* web: self.recognized_text
    current_word,     \* web: self.current_word
    word_suggestions, \* web: self.word_suggestions
    str,              \* desktop: self.str
    word,             \* desktop: self.word
    word1,            \* desktop: self.word1
    word2,            \* desktop: self.word2
    word3,            \* desktop: self.word3
    word4,            \* desktop: self.word4
    applied,          \* history: suggestion commands since construction or the last reset
    fed,              \* history: tokens fed since construction or the last reset
    last,             \* history: the last operation and the state it started from
    frame,            \* the frame being classified: [pl, pts]
    final_bucket,     \* the coarse class ch1 of frame after the overrides (-1 before)
    group_char,       \* the letter of final_bucket, before the gesture overrides ("" before)
    predicted_char,   \* the token the classifier returned for frame ("" before)
    loop,             \* the tick loop: "scheduled" or "ended"
    pc,               \* the statement each thread of the web server is at
    cascade,          \* desktop predict inside the cascade: the next rule, ch1, ch2, pl
    speech,           \* the SpeechSynthesis object, its worker thread and a caller
    server,           \* app.py: its globals and the locals of the threads inside it
    users             \* the UserAuthentication object and its users file

vars == <<app, dictionary, prev_char, count, ten_prev_char, recognized_text,
          current_word, word_suggestions, str, word, word1, word2, word3, word4,
          applied, fed, last, frame, final_bucket, group_char, predicted_char,
          loop, pc, cascade,
            speech, server, users>>

\* what the token-level operations leave alone
frameVars == <<frame, final_bucket, group_char, predicted_char, loop, pc, cascade,
               speech, server, users>>

\* app.py as imported: no camera, nothing recognised, nobody logged in
NoServer ==
    [camera |-> FALSE, camera_active |-> FALSE, recognition_active |-> FALSE,
     session |-> FALSE, sentence |-> << >>, results |-> << >>,
     reported |-> << >>, asked |-> FALSE, cleared |-> FALSE, since |-> 0,
     requests |-> 0, success |-> TRUE]

\* no UserAuthentication object was built
NoUsers == [users |-> << >>, file |-> << >>, calls |-> 0, success |-> TRUE, before |-> << >>]

\* no SpeechSynthesis object was built
NoSpeech ==
    [engine |-> FALSE, speech_queue |-> << >>, is_speaking |-> FALSE, stop_flag |-> FALSE,
     worker |-> "none", speech_text |-> << >>, caller |-> "idle",
     accepted |-> << >>, spoken |-> << >>, calls |-> 0,
     lost |-> FALSE, clears |-> 0, shut |-> FALSE, immediates |-> 0,
     down |-> FALSE, late |-> FALSE]

\* desktop predict is not inside the cascade
NoCascade == [rule |-> 0, ch1 |-> 0, ch2 |-> 0, pl |-> <<0, 0>>]

\* the threads of the web server (app.run(threaded=True)): the /video_feed
\* generator and one request handler
Idle == [t \in {"stream", "request"} |-> "idle"]

webVars == <<recognized_text, current_word, word_suggestions>>
desktopVars == <<str, word, word1, word2, word3, word4>>

EmptyHistory == [i \in 0..(HistLen - 1) |-> " "]

\* the record kept in last
Op(name, tok, sugg, text, raised) ==
    [op |-> name, tok |-> tok, sugg |-> sugg, text |-> text, prev |-> prev_char,
     raised |-> raised, called |-> FALSE]

\* __init__ of both classes (the web one through reset_recognition_state)
Constructed ==
    /\ prev_char = ""
    /\ count = -1
    /\ ten_prev_char = EmptyHistory
    /\ recognized_text = << >>
    /\ current_word = << >>
    /\ word_suggestions = BlankSuggestions
    /\ str = << >>
    /\ word = << >>
    /\ word1 = Blank
    /\ word2 = Blank
    /\ word3 = Blank
    /\ word4 = Blank
    /\ fed = << >>
    /\ last = [op |-> "init", tok |-> "", sugg |-> << >>, text |-> << >>, prev |-> "",
               raised |-> FALSE, called |-> FALSE]
    /\ applied = 0
    /\ final_bucket = -1
    /\ group_char = ""
    /\ predicted_char = ""
    /\ loop = "scheduled"
    /\ pc = Idle
    /\ cascade = NoCascade

Init ==
    /\ app \in {"web", "desktop"}
    /\ dictionary \in (IF app = "web" THEN BOOLEAN ELSE {TRUE})
    /\ frame = NoFrame
    /\ Constructed
    /\ speech = NoSpeech
    /\ server = NoServer
    /\ users = NoUsers

\* mutant of WriteIndex: the slot indexed before count is incremented
WriteIndex_BeforeIncrement(cnt) == cnt % HistLen

\* the slot written by a tick: self.count += 1, then index self.count % 10
WriteIndex(cnt) == (cnt + 1) % HistLen

\* "Update tracking variables": prev_char, count, ten_prev_char
Track(character) ==
    /\ prev_char' = character
    /\ count' = count + 1
    /\ ten_prev_char' = [ten_prev_char EXCEPT ![WriteIndex(count)] = character]
    /\ fed' = Append(fed, character)

\* web update_text_with_character(character), update_word_suggestions included
WebUpdate(character, raises) ==
    /\ app = "web"
    /\ LET text == WebAccumulate(recognized_text, prev_char, count, ten_prev_char, character)
           s == WebUpdateSuggestions(text, current_word, dictionary, raises)
       IN  /\ recognized_text' = text
           /\ current_word' = s.current_word
           /\ word_suggestions' = s.word_suggestions
    /\ Track(character)
    /\ last' = [Op("tick", character, << >>, recognized_text, raises) EXCEPT
                   !.called = WebUpdateSuggestions(
                                  WebAccumulate(recognized_text, prev_char, count,
                                                ten_prev_char, character),
                                  current_word, dictionary, raises).called]
    /\ UNCHANGED <<app, dictionary, applied, desktopVars>>

\* desktop predict, from "Character accumulation logic" to its end
DesktopUpdate(ch1, raises) ==
    /\ app = "desktop"
    /\ LET text == DesktopAccumulate(str, prev_char, count, ten_prev_char, ch1)
           s == DesktopUpdateSuggestions(text, word, <<word1, word2, word3, word4>>, raises)
       IN  /\ str' = text
           /\ word' = s.word
           /\ word1' = s.words[1]
           /\ word2' = s.words[2]
           /\ word3' = s.words[3]
           /\ word4' = s.words[4]
    /\ Track(ch1)
    /\ last' = [Op("tick", ch1, << >>, str, raises) EXCEPT
                   !.called = DesktopUpdateSuggestions(
                                  DesktopAccumulate(str, prev_char, count, ten_prev_char, ch1),
                                  word, <<word1, word2, word3, word4>>, raises).called]
    /\ UNCHANGED <<app, dictionary, applied, webVars>>

\* the dictionary lookup can raise only when it is made
WebRaises(text) ==
    IF dictionary /\ NonBlank(text) /\ NonBlank(ActiveWord(text)) THEN BOOLEAN ELSE {FALSE}

DesktopRaises(text) ==
    IF NonBlank(text) /\ NonBlank(ActiveWord(text)) THEN BOOLEAN ELSE {FALSE}

WebTick ==
    \E character \in Tokens :
        /\ Len(fed) < MaxTicks
        /\ \E raises \in WebRaises(WebAccumulate(recognized_text, prev_char, count, ten_prev_char, character)) :
              WebUpdate(character, raises)
        /\ UNCHANGED frameVars

DesktopTick ==
    \E ch1 \in Tokens :
        /\ Len(fed) < MaxTicks
        /\ \E raises \in DesktopRaises(DesktopAccumulate(str, prev_char, count, ten_prev_char, ch1)) :
              DesktopUpdate(ch1, raises)
        /\ UNCHANGED frameVars

\* web clear_text, reset_recognition_state included
WebClear ==
    /\ app = "web"
    /\ recognized_text' = << >>
    /\ current_word' = << >>
    /\ word_suggestions' = BlankSuggestions
    /\ prev_char' = ""
    /\ count' = -1
    /\ ten_prev_char' = EmptyHistory
    /\ fed' = << >>
    /\ applied' = 0
    /\ last' = Op("clear", "", << >>, recognized_text, FALSE)
    /\ UNCHANGED <<app, dictionary, desktopVars, frameVars>>

\* desktop clear_fun
DesktopClear ==
    /\ app = "desktop"
    /\ str' = << >>
    /\ word1' = Blank
    /\ word2' = Blank
    /\ word3' = Blank
    /\ word4' = Blank
    /\ last' = Op("clear", "", << >>, str, FALSE)
    /\ UNCHANGED <<app, dictionary, prev_char, count, ten_prev_char, word, applied, fed, webVars,
                   frameVars>>

\* web apply_word_suggestion(suggestion), update_word_suggestions included
WebApply ==
    \E suggestion \in ApiSuggestions :
      \E raises \in WebRaises(WebApplySuggestion(recognized_text, suggestion)) :
        /\ app = "web"
        /\ applied < MaxApplies
        /\ applied' = applied + 1
        /\ LET text == WebApplySuggestion(recognized_text, suggestion)
               s == WebUpdateSuggestions(text, current_word, dictionary, raises)
           IN  /\ Len(text) <= MaxText
               /\ recognized_text' = text
               /\ current_word' = s.current_word
               /\ word_suggestions' = s.word_suggestions
        /\ last' = [Op("apply", "", suggestion, recognized_text, raises) EXCEPT
                       !.called = WebUpdateSuggestions(
                                      WebApplySuggestion(recognized_text, suggestion),
                                      current_word, dictionary, raises).called]
        /\ UNCHANGED <<app, dictionary, prev_char, count, ten_prev_char, fed, desktopVars,
                       frameVars>>

\* desktop action1..action4
DesktopAction ==
    \E i \in 1..NumSuggestions :
        /\ app = "desktop"
        /\ applied < MaxActions
        /\ applied' = applied + 1
        /\ LET suggestion == <<word1, word2, word3, word4>>[i]
               text == DesktopApplySuggestion(str, word, suggestion)
           IN  /\ Len(text) <= MaxText
               /\ str' = text
               /\ last' = Op("apply", "", suggestion, str, FALSE)
        /\ UNCHANGED <<app, dictionary, prev_char, count, ten_prev_char, fed,
                       word, word1, word2, word3, word4, webVars, frameVars>>

Next ==
    \/ WebTick
    \/ WebClear
    \/ WebApply
    \/ DesktopTick
    \/ DesktopClear
    \/ DesktopAction

Spec == Init /\ [][Next]_vars

\* Runs of the web recognizer long enough for the history to wrap: ticks
\* over RingTokens and clears.
InitRing == Init /\ app = "web"

RingTick ==
    \E character \in RingTokens :
        /\ Len(fed) < MaxRingTicks
        /\ \E raises \in WebRaises(WebAccumulate(recognized_text, prev_char, count, ten_prev_char, character)) :
              WebUpdate(character, raises)
        /\ UNCHANGED frameVars

NextRing ==
    \/ RingTick
    \/ WebClear

SpecRing == InitRing /\ [][NextRing]_vars

\* ------------------------------------------------------- the tick loops
\* Runs of the two tick loops on frames: web generate_video_frames calling
\* process_frame, desktop video_loop calling predict.

\* mutant of DesktopReschedule: rescheduled at the end of the try block only
DesktopReschedule_NotInFinally(raised) == IF raised THEN "ended" ELSE "scheduled"

\* video_loop, "finally: self.root.after(1, self.video_loop)"
DesktopReschedule(raised) == "scheduled"

\* generate_video_frames: process_frame catches its exceptions, the call is in
\* a try / except, and the while loop goes on
WebContinue(raised) == "scheduled"

\* predict, lines 809 and 813: str + int raises TypeError when the slot to
\* append holds the integer 1
DesktopConcatRaises(prev, cnt, hist, ch) ==
    /\ RisingEdge(ch, prev, "next")
    /\ IF Lookback(hist, cnt) # "next"
       THEN Lookback(hist, cnt) = Int1
       ELSE Fallback(hist, cnt) = Int1

\* mutant of LandmarksRead: predict runs before self.pts is assigned and reads
\* the list of the frame before
LandmarksRead_BeforeAssignment(current, previous) ==
    IF Cardinality(DOMAIN previous) > 20 THEN previous ELSE current

\* the landmark list desktop predict reads: self.pts, which video_loop assigns
\* from the current frame (line 313) before it calls self.predict (line 340)
LandmarksRead(current, previous) == current

\* mutant of HandInBoth: the second detector's result is not tested
HandInBoth_FullOnly(full, cropped) == full

\* "if hands[0]: ... if hands_cropped[0]:" (desktop: handz[0]): the frame is
\* classified when both detectors found a hand
HandInBoth(full, cropped) == full /\ cropped

\* the variables a frame that is not accumulated leaves alone
tickVars == <<prev_char, count, ten_prev_char, fed, applied, webVars, desktopVars>>

\* web process_frame(frame), called by generate_video_frames
WebProcessFrame ==
    \E f \in TickFrames :
        /\ app = "web"
        /\ loop = "scheduled"
        /\ Len(fed) < MaxFrames
        /\ frame' = f
        /\ IF f.fault = "detector"
           THEN /\ predicted_char' = ""
                /\ last' = Op("fault", "", << >>, recognized_text, FALSE)
                /\ loop' = WebContinue(TRUE)
                /\ UNCHANGED <<app, dictionary, tickVars>>
           ELSE IF ~HandInBoth(f.hand, f.crop)
           THEN /\ predicted_char' = ""
                /\ last' = Op("nohand", "", << >>, recognized_text, FALSE)
                /\ loop' = WebContinue(FALSE)
                /\ UNCHANGED <<app, dictionary, tickVars>>
           ELSE LET character == IF f.fault = "cnn"
                                 THEN "PRED_ERROR"
                                 ELSE predict_gesture(f.pl[1], f.pl[2], f.pts)
                IN  /\ predicted_char' = character
                    /\ loop' = WebContinue(f.fault = "cnn")
                    /\ \E raises \in WebRaises(WebAccumulate(recognized_text, prev_char, count,
                                                           ten_prev_char, character)) :
                          WebUpdate(character, raises)
        /\ UNCHANGED <<final_bucket, group_char, pc, cascade,
            speech, server, users>>

\* generate_video_frames, "if not success: break"
WebCameraFails ==
    /\ app = "web"
    /\ loop = "scheduled"
    /\ loop' = "ended"
    /\ last' = Op("camera", "", << >>, recognized_text, FALSE)
    /\ UNCHANGED <<app, dictionary, tickVars, frame, final_bucket, group_char, predicted_char, pc, cascade,
            speech, server, users>>

\* desktop video_loop on one frame, predict included
DesktopVideoLoop ==
    \E f \in TickFrames :
        /\ app = "desktop"
        /\ loop = "scheduled"
        /\ Len(fed) < MaxFrames
        /\ frame' = f
        /\ IF \/ f.fault # "none"
              \/ HandInBoth(f.hand, f.crop) /\ Cardinality(DOMAIN f.pts) < 21
           THEN /\ predicted_char' = ""
                /\ last' = Op("fault", "", << >>, str, FALSE)
                /\ loop' = DesktopReschedule(TRUE)
                /\ UNCHANGED <<app, dictionary, tickVars>>
           ELSE IF ~HandInBoth(f.hand, f.crop)
           THEN /\ predicted_char' = ""
                /\ last' = Op("nohand", "", << >>, str, FALSE)
                /\ loop' = DesktopReschedule(FALSE)
                /\ UNCHANGED <<app, dictionary, tickVars>>
           ELSE LET ch1 == DesktopClassify(f.pl[1], f.pl[2], LandmarksRead(f.pts, frame.pts))
                IN  /\ predicted_char' = ch1
                    /\ IF DesktopConcatRaises(prev_char, count, ten_prev_char, ch1)
                       THEN /\ last' = Op("fault", ch1, << >>, str, FALSE)
                            /\ loop' = DesktopReschedule(TRUE)
                            /\ UNCHANGED <<app, dictionary, tickVars>>
                       ELSE \E raises \in DesktopRaises(DesktopAccumulate(str, prev_char, count,
                                                                         ten_prev_char, ch1)) :
                               /\ DesktopUpdate(ch1, raises)
                               /\ loop' = DesktopReschedule(raises)
        /\ UNCHANGED <<final_bucket, group_char, pc, cascade,
            speech, server, users>>

NextFrame ==
    \/ WebProcessFrame
    \/ WebCameraFails
    \/ DesktopVideoLoop

SpecFrame == Init /\ [][NextFrame]_vars

\* ------------------------------------------------- the web server's threads
\* app.run(threaded=True): every request is served by a thread of its own. The
\* thread "stream" serves /video_feed and runs generate_video_frames, which
\* calls process_frame and through it update_text_with_character; the thread
\* "request" serves /api/text/clear and /api/text/suggest. All of them use the
\* one module-level recognizer and no lock is taken, so the threads interleave
\* between the statements of the methods. pc[t] is the statement thread t is
\* about to execute; predicted_char is the local variable character of the
\* stream thread.

ThreadTokens == {"A", "next"}

InitThreads ==
    /\ app = "web"
    /\ dictionary = TRUE
    /\ frame = NoFrame
    /\ Constructed
    /\ speech = NoSpeech
    /\ server = NoServer
    /\ users = NoUsers

threadFixed == <<app, dictionary, last, desktopVars, frame, final_bucket, group_char, loop,
                 cascade,
            speech, server, users>>

\* update_text_with_character, lines 291-310: the accumulation
StreamAccumulate ==
    \E character \in ThreadTokens :
        /\ pc["stream"] = "idle"
        /\ Len(fed) < MaxThreadTicks
        /\ predicted_char' = character
        /\ recognized_text' = WebAccumulate(recognized_text, prev_char, count, ten_prev_char,
                                            character)
        /\ pc' = [pc EXCEPT !["stream"] = "track"]
        /\ UNCHANGED <<threadFixed, prev_char, count, ten_prev_char, fed, applied,
                       current_word, word_suggestions>>

\* update_text_with_character, lines 313-315
StreamTrack ==
    /\ pc["stream"] = "track"
    /\ prev_char' = predicted_char
    /\ count' = count + 1
    /\ pc' = [pc EXCEPT !["stream"] = "history"]
    /\ UNCHANGED <<threadFixed, ten_prev_char, fed, applied, predicted_char, webVars>>

\* update_text_with_character, line 316
StreamHistory ==
    /\ pc["stream"] = "history"
    /\ ten_prev_char' = [ten_prev_char EXCEPT ![count % HistLen] = predicted_char]
    /\ fed' = Append(fed, predicted_char)
    /\ pc' = [pc EXCEPT !["stream"] = "suggest"]
    /\ UNCHANGED <<threadFixed, prev_char, count, applied, predicted_char, webVars>>

\* update_text_with_character, line 319: update_word_suggestions
StreamSuggest ==
    \E raises \in WebRaises(recognized_text) :
        /\ pc["stream"] = "suggest"
        /\ LET s == WebUpdateSuggestions(recognized_text, current_word, dictionary, raises)
           IN  /\ current_word' = s.current_word
               /\ word_suggestions' = s.word_suggestions
        /\ pc' = [pc EXCEPT !["stream"] = "idle"]
        /\ UNCHANGED <<threadFixed, prev_char, count, ten_prev_char, fed, applied,
                       predicted_char, recognized_text>>

\* clear_text, lines 379-381
RequestClear ==
    /\ pc["request"] = "idle"
    /\ recognized_text' = << >>
    /\ current_word' = << >>
    /\ word_suggestions' = BlankSuggestions
    /\ pc' = [pc EXCEPT !["request"] = "reset"]
    /\ UNCHANGED <<threadFixed, prev_char, count, ten_prev_char, fed, applied, predicted_char>>

\* clear_text, line 382: reset_recognition_state
RequestReset ==
    /\ pc["request"] = "reset"
    /\ prev_char' = ""
    /\ count' = -1
    /\ ten_prev_char' = EmptyHistory
    /\ fed' = << >>
    /\ applied' = 0
    /\ pc' = [pc EXCEPT !["request"] = "idle"]
    /\ UNCHANGED <<threadFixed, predicted_char, webVars>>

\* apply_word_suggestion, lines 363-367: the replacement
RequestApply ==
    \E suggestion \in ApiSuggestions :
        /\ pc["request"] = "idle"
        /\ applied < MaxApplies
        /\ applied' = applied + 1
        /\ Len(WebApplySuggestion(recognized_text, suggestion)) <= MaxText
        /\ recognized_text' = WebApplySuggestion(recognized_text, suggestion)
        /\ pc' = [pc EXCEPT !["request"] = "suggest"]
        /\ UNCHANGED <<threadFixed, prev_char, count, ten_prev_char, fed, predicted_char,
                       current_word, word_suggestions>>

\* apply_word_suggestion, line 369: update_word_suggestions
RequestSuggest ==
    \E raises \in WebRaises(recognized_text) :
        /\ pc["request"] = "suggest"
        /\ LET s == WebUpdateSuggestions(recognized_text, current_word, dictionary, raises)
           IN  /\ current_word' = s.current_word
               /\ word_suggestions' = s.word_suggestions
        /\ pc' = [pc EXCEPT !["request"] = "idle"]
        /\ UNCHANGED <<threadFixed, prev_char, count, ten_prev_char, fed, applied,
                       predicted_char, recognized_text>>

NextThreads ==
    \/ StreamAccumulate
    \/ StreamTrack
    \/ StreamHistory
    \/ StreamSuggest
    \/ RequestClear
    \/ RequestReset
    \/ RequestApply
    \/ RequestSuggest

SpecThreads == InitThreads /\ [][NextThreads]_vars

\* ----------------------------------------------- the classifier on its own
\* One frame per run: the CNN's pair and the landmark list are the input, the
\* classifier of the running program is applied to it once.
InitClassify ==
    /\ app \in {"web", "desktop"}
    /\ dictionary = TRUE
    /\ frame \in ClassifyFrames
    /\ Constructed
    /\ speech = NoSpeech
    /\ server = NoServer
    /\ users = NoUsers

accVars == <<app, dictionary, prev_char, count, ten_prev_char, applied, fed, last,
             webVars, desktopVars>>

\* web predict_gesture on the frame
WebClassifyFrame ==
    /\ app = "web"
    /\ predicted_char = ""
    /\ final_bucket' = frame.pl[1]
    /\ group_char' = WebLetter(frame.pl[1], frame.pts)
    /\ predicted_char' = predict_gesture(frame.pl[1], frame.pl[2], frame.pts)
    /\ UNCHANGED <<accVars, frame, loop, pc, cascade,
            speech, server, users>>

\* desktop predict on the frame, up to "Character accumulation logic"
DesktopClassifyFrame ==
    /\ app = "desktop"
    /\ predicted_char = ""
    /\ final_bucket' = DesktopBucket(frame.pl[1], frame.pl[2], frame.pts)
    /\ group_char' = DesktopLetter(DesktopBucket(frame.pl[1], frame.pl[2], frame.pts), frame.pts)
    /\ predicted_char' = DesktopClassify(frame.pl[1], frame.pl[2], frame.pts)
    /\ UNCHANGED <<accVars, frame, loop, pc, cascade,
            speech, server, users>>

NextClassify ==
    \/ WebClassifyFrame
    \/ DesktopClassifyFrame

SpecClassify == InitClassify /\ [][NextClassify]_vars

\* ------------------------------------------ the cascade, rule by rule
\* desktop predict, lines 480-722, one "if pl in l" block at a time:
\* cascade.rule is the block about to run, cascade.ch1 and cascade.ch2 the
\* locals ch1 and ch2, cascade.pl the local pl.

\* the number of "if pl in l" blocks of lines 484-722
NumRules == 35

\* fingers up or down, the thumb above left or below right, the wrist left of,
\* under and right of the hand
CascadePoses ==
    {Hand(v, thumb, 60, wristx) :
        v \in [1..4 -> {"up", "down"}],
        thumb \in {<<50, 60>>, <<110, 140>>},
        wristx \in {0, 90, 200}}

CascadeFrames == {Seen(p, pts, "none") : p \in CoarsePairs, pts \in CascadePoses}

\* mutant of GuardPair: pl is never recomputed
GuardPair_NeverRecomputed(i, old, c, d) == old

\* the pair block i tests: blocks 1 and 2 read the pl of line 480, every later
\* block starts with "pl = [ch1, ch2]"
GuardPair(i, old, c, d) == IF i >= 3 THEN <<c, d>> ELSE old

\* block i of the cascade on the tested pair pl and the local ch1 = c: the new
\* ch1 (from block 3 on pl[1] is c)
CascadeRule(i, pl, c, pts) ==
    CASE i = 1 -> Rule484(pl, c, pts)
      [] i = 2 -> Rule490(pl, c, pts)
      [] i = 3 -> Rule497(pl[1], pl[2], pts)
      [] i = 4 -> Rule504(pl[1], pl[2], pts)
      [] i = 5 -> Rule512(pl[1], pl[2], pts)
      [] i = 6 -> Rule519(pl[1], pl[2], pts)
      [] i = 7 -> Rule526(pl[1], pl[2], pts)
      [] i = 8 -> Rule533(pl[1], pl[2], pts)
      [] i = 9 -> Rule540(pl[1], pl[2], pts)
      [] i = 10 -> Rule547(pl[1], pl[2], pts)
      [] i = 11 -> Rule554(pl[1], pl[2], pts)
      [] i = 12 -> Rule561(pl[1], pl[2], pts)
      [] i = 13 -> Rule568(pl[1], pl[2], pts)
      [] i = 14 -> Rule575(pl[1], pl[2], pts)
      [] i = 15 -> Rule582(pl[1], pl[2], pts)
      [] i = 16 -> Rule589(pl[1], pl[2], pts)
      [] i = 17 -> Rule596(pl[1], pl[2], pts)
      [] i = 18 -> Rule603(pl[1], pl[2], pts)
      [] i = 19 -> Rule610(pl[1], pl[2], pts)
      [] i = 20 -> Rule617(pl[1], pl[2], pts)
      [] i = 21 -> Rule624(pl[1], pl[2], pts)
      [] i = 22 -> Rule631(pl[1], pl[2], pts)
      [] i = 23 -> Rule638(pl[1], pl[2], pts)
      [] i = 24 -> Rule645(pl[1], pl[2], pts)
      [] i = 25 -> Rule652(pl[1], pl[2], pts)
      [] i = 26 -> Rule658(pl[1], pl[2], pts)
      [] i = 27 -> Rule665(pl[1], pl[2], pts)
      [] i = 28 -> Rule671(pl[1], pl[2], pts)
      [] i = 29 -> Rule677(pl[1], pl[2], pts)
      [] i = 30 -> Rule683(pl[1], pl[2], pts)
      [] i = 31 -> Rule690(pl[1], pl[2], pts)
      [] i = 32 -> Rule697(pl[1], pl[2], pts)
      [] i = 33 -> Rule704(pl[1], pl[2], pts)
      [] i = 34 -> Rule712(pl[1], pl[2], pts)
      [] i = 35 -> Rule718(pl[1], pl[2], pts)

InitCascade ==
    /\ app = "desktop"
    /\ dictionary = TRUE
    /\ frame \in CascadeFrames
    /\ Constructed
    /\ speech = NoSpeech
    /\ server = NoServer
    /\ users = NoUsers

\* predict, lines 472-480: ch1, ch2 and pl from the CNN's output
CascadeStart ==
    /\ cascade.rule = 0
    /\ cascade' = [rule |-> 1, ch1 |-> frame.pl[1], ch2 |-> frame.pl[2], pl |-> frame.pl]
    /\ UNCHANGED <<accVars, frame, final_bucket, group_char, predicted_char, loop, pc,
            speech, server, users>>

\* predict: the next "if pl in l" block
CascadeStep ==
    /\ cascade.rule \in 1..NumRules
    /\ LET tested == GuardPair(cascade.rule, cascade.pl, cascade.ch1, cascade.ch2)
       IN  cascade' = [rule |-> cascade.rule + 1,
                       ch1 |-> CascadeRule(cascade.rule, tested, cascade.ch1, frame.pts),
                       ch2 |-> cascade.ch2,
                       pl |-> tested]
    /\ UNCHANGED <<accVars, frame, final_bucket, group_char, predicted_char, loop, pc,
            speech, server, users>>

\* predict, lines 724-798: the letter of the class the cascade left, and the
\* two gesture overrides
CascadeEnd ==
    /\ cascade.rule = NumRules + 1
    /\ predicted_char = ""
    /\ final_bucket' = cascade.ch1
    /\ group_char' = DesktopLetter(cascade.ch1, frame.pts)
    /\ predicted_char' = DesktopNextGesture(
                             DesktopSpaceGesture(DesktopLetter(cascade.ch1, frame.pts),
                                                 frame.pts), frame.pts)
    /\ UNCHANGED <<accVars, frame, loop, pc, cascade,
            speech, server, users>>

NextCascade ==
    \/ CascadeStart
    \/ CascadeStep
    \/ CascadeEnd

SpecCascade == InitCascade /\ [][NextCascade]_vars

\* ------------------------------------------------------------------ claims
\* the output text of the running program
OutputText == IF app = "web" THEN recognized_text ELSE str

\* the last operation was a tick fed tok
Ticked(tok) == last.op = "tick" /\ last.tok = tok

\* the last operation was a tick on the rising edge of tok
TickedEdge(tok) == Ticked(tok) /\ last.prev # tok

\* what a confirmation appends to the text it started from
Confirmed(tok) ==
    IF app = "web" THEN last.text \o <<tok>> ELSE RStrip(last.text) \o <<tok>>

\* C1 (as stated): on a rising-edge "next" at tick t that follows a letter X at
\* tick t-2 and a non-"next" token at tick t-1, the character appended is X,
\* whatever was fed before, nothing included.
C1_AppendsTickMinus2 ==
    (/\ TickedEdge("next")
     /\ Len(fed) >= 3
     /\ fed[Len(fed) - 1] # "next"
     /\ fed[Len(fed) - 2] \in Letters)
    => OutputText = Confirmed(fed[Len(fed) - 2])

\* C1 (amended): in the same situation the slot read is the one of tick t-3
\* (count is incremented only after the lookup): a letter W fed at tick t-3 is
\* what is appended; with " " there, or with fewer than three tokens fed since
\* construction or reset, nothing is appended; "Backspace" there truncates; and
\* "next" there makes the token of tick t-1 the one appended when it is a
\* letter.  The letter X of tick t-2 is never the slot consulted.
C1_AppendsTickMinus3 ==
    (/\ TickedEdge("next")
     /\ Len(fed) >= 3
     /\ fed[Len(fed) - 1] # "next"
     /\ fed[Len(fed) - 2] \in Letters)
    => LET n == Len(fed)
           W == IF n >= 4 THEN fed[n - 3] ELSE " "
           Y == fed[n - 1]
       IN  /\ W \in Letters => OutputText = Confirmed(W)
           /\ W = " " => OutputText = last.text
           /\ W = "Backspace" =>
                \/ OutputText = last.text
                \/ /\ Len(last.text) > 0
                   /\ OutputText = SubSeq(last.text, 1, Len(last.text) - 1)
           /\ W = "next" =>
                OutputText = (IF Y \in Letters THEN Confirmed(Y) ELSE last.text)

\* C1 witness: "A" at t-3, "S" at t-2, then a rising-edge "next" appended "A"
C1_Witness ==
    /\ TickedEdge("next")
    /\ Len(fed) >= 4
    /\ fed[Len(fed) - 3] = "A"
    /\ fed[Len(fed) - 2] = "S"
    /\ fed[Len(fed) - 1] # "next"
    /\ OutputText = last.text \o <<"A">>

\* C2 (as stated): a tick whose token is a letter never changes the output
\* text, in either accumulator.
C2_LetterNeverChangesText ==
    (last.op = "tick" /\ last.tok \in Letters) => OutputText = last.text

\* C2 (amended): a letter tick never changes the web text; in the desktop
\* accumulator it changes the text in exactly one case, an S or T whose
\* previous token is not S, T or " " appends one space to a non-empty text
\* that does not end in a space.  A tick changes the text only on a
\* rising-edge "next", " " or "Backspace", or on that desktop S/T.
C2_LetterChangesTextOnlyOnDesktopST ==
    /\ (last.op = "tick" /\ last.tok \in Letters) =>
          IF /\ app = "desktop"
             /\ last.tok \in {"S", "T"}
             /\ last.prev \notin {"S", "T", " "}
             /\ Len(last.text) > 0
             /\ last.text[Len(last.text)] # " "
          THEN OutputText = last.text \o <<" ">>
          ELSE OutputText = last.text
    /\ (last.op = "tick" /\ OutputText # last.text) =>
          \/ last.tok \in Special /\ last.prev # last.tok
          \/ app = "desktop" /\ last.tok \in {"S", "T"}

\* C2 witness: the desktop accumulator took an S on a text ending in a letter
C2_Witness ==
    /\ app = "desktop"
    /\ Ticked("S")
    /\ Len(last.text) > 0
    /\ str = last.text \o <<" ">>

\* C3: a tick that repeats the previous token " ", "Backspace" or "next"
\* leaves the output text as the first tick of the run left it.
C3_DebounceIdempotent ==
    (/\ last.op = "tick"
     /\ last.tok \in Special
     /\ last.prev = last.tok)
    => OutputText = last.text

\* C3 witness: a second consecutive " " on a text that the first one extended
C3_Witness ==
    /\ Ticked(" ")
    /\ last.prev = " "
    /\ Len(fed) >= 2
    /\ fed[Len(fed) - 1] = " "
    /\ Len(last.text) > 0
    /\ last.text[Len(last.text)] = " "
    /\ OutputText = last.text

\* C4: in the web recognizer ten_prev_char always has its 10 slots, count is
\* the number of ticks since the last reset minus one, each of the last 10
\* ticks is held by the slot of its index modulo 10, and prev_char is the
\* token of the slot of count.
C4_RingBufferInvariant ==
    app = "web" =>
        /\ DOMAIN ten_prev_char = 0..(HistLen - 1)
        /\ count = Len(fed) - 1
        /\ \A k \in 0..(HistLen - 1) :
              count - k >= 0 => ten_prev_char[(count - k) % HistLen] = fed[count - k + 1]
        /\ count >= 0 => prev_char = ten_prev_char[count % HistLen]

\* C4 witness: the history has wrapped and the last tick replaced the token
\* that the slot held ten ticks before
C4_Witness ==
    /\ app = "web"
    /\ last.op = "tick"
    /\ count >= HistLen
    /\ fed[count + 1 - HistLen] # fed[count + 1]
    /\ ten_prev_char[count % HistLen] = fed[count + 1]

\* C5 (as stated): the clear command returns every field of the state machine
\* to its initial value, in both programs.
C5_ClearResetsEverything ==
    last.op = "clear" =>
        /\ OutputText = << >>
        /\ prev_char = ""
        /\ count = -1
        /\ ten_prev_char = EmptyHistory

\* C6: a "Backspace" token on its rising edge removes exactly the last
\* character of a non-empty output text and leaves an empty one empty; a
\* "Backspace" that repeats the previous token removes nothing.
C6_BackspaceTruncates ==
    Ticked("Backspace") =>
        IF last.prev # "Backspace" /\ Len(last.text) > 0
        THEN OutputText = SubSeq(last.text, 1, Len(last.text) - 1)
        ELSE OutputText = last.text

\* C6 witness: a rising-edge "Backspace" took the last of at least two characters
C6_Witness ==
    /\ TickedEdge("Backspace")
    /\ Len(last.text) >= 2
    /\ OutputText = SubSeq(last.text, 1, Len(last.text) - 1)

\* C7 (as stated): in the web recognizer, after every operation that changed
\* recognized_text, current_word is the part of the text after its last space.
C7_ActiveWordDerived ==
    (/\ app = "web"
     /\ last.op \in {"tick", "apply", "clear"}
     /\ recognized_text # last.text)
    => current_word = ActiveWord(recognized_text)

\* the texts that keep text up to and including its last space (all of it
\* dropped when it has none) and continue with replacement
ReplacedLastWord(text, replacement) ==
    {SubSeq(text, 1, k) \o replacement :
        k \in {j \in 0..Len(text) :
                  /\ j = 0 \/ text[j] = " "
                  /\ \A i \in (j + 1)..Len(text) : text[i] # " "}}

\* C8: web apply_word_suggestion replaces exactly the part of recognized_text
\* after its last space (all of it when there is none) by the suggestion in
\* upper case.
C8_WebApplyReplacesLastWord ==
    (app = "web" /\ last.op = "apply")
    => recognized_text \in ReplacedLastWord(last.text, Upper(last.sugg))

\* C8 witness: a suggestion replaced the word after a space
C8_Witness ==
    /\ app = "web"
    /\ last.op = "apply"
    /\ \E i \in 1..Len(last.text) : last.text[i] = " "
    /\ last.text[Len(last.text)] # " "
    /\ recognized_text # last.text
    /\ Upper(last.sugg) # last.sugg

\* C9 (as stated): a desktop suggestion button replaces exactly the part of
\* the output text after its last space (all of it when there is none) by the
\* chosen suggestion in upper case, whatever the stored word.
C9_DesktopActionReplacesLastWord ==
    (app = "desktop" /\ last.op = "apply" /\ last.sugg # Blank)
    => str \in ReplacedLastWord(last.text, Upper(last.sugg))

\* C10 (as stated): after every tick (of a token the classifier can produce,
\* with a dictionary lookup that returned), slot i of the suggestion set holds
\* the dictionary's i-th suggestion for the active word of the output text
\* when there is one, and a blank otherwise.
C10_SuggestionSlotsFresh ==
    (last.op = "tick" /\ last.tok # "Backspace" /\ ~last.raised)
    => LET slots == IF app = "web"
                    THEN word_suggestions
                    ELSE <<word1, word2, word3, word4>>
           w == ActiveWord(OutputText)
           found == IF dictionary /\ NonBlank(w) THEN DictSuggest(w) ELSE << >>
       IN  /\ Len(slots) = NumSuggestions
           /\ \A i \in 1..NumSuggestions :
                 slots[i] = (IF i <= Len(found) THEN found[i] ELSE Blank)

\* the suggestion set of the running program
Slots == IF app = "web" THEN word_suggestions ELSE <<word1, word2, word3, word4>>

\* C11 (as stated): after every tick (of a token the classifier can produce),
\* when the active word of the output text is empty or whitespace (text empty,
\* all whitespace, or ending in a space), the suggestion set is 4 blank
\* placeholders and the dictionary was not called, in both programs.
C11_BlankWordBlankSuggestions ==
    (/\ last.op = "tick"
     /\ last.tok # "Backspace"
     /\ ~NonBlank(ActiveWord(OutputText)))
    => /\ Slots = BlankSuggestions
       /\ ~last.called

\* what the tick recorded in last makes of the text it started from; the two
\* history slots it reads are not the one it writes
AccumulatedByLast ==
    IF app = "web"
    THEN WebAccumulate(last.text, last.prev, count - 1, ten_prev_char, last.tok)
    ELSE DesktopAccumulate(last.text, last.prev, count - 1, ten_prev_char, last.tok)

\* C12 (as stated): after a tick whose dictionary lookup raised, or that ran
\* without a dictionary, the suggestion set is 4 blank placeholders and the
\* output text, prev token, count and history are those of the same tick with
\* a working dictionary, in both programs.
C12_LookupFailureBlanksSuggestions ==
    (last.op = "tick" /\ (last.raised \/ ~dictionary))
    => /\ Slots = BlankSuggestions
       /\ OutputText = AccumulatedByLast
       /\ prev_char = last.tok
       /\ count = Len(fed) - 1
       /\ ten_prev_char[count % HistLen] = last.tok

\* string.ascii_uppercase
ascii_uppercase ==
    {"A", "B", "C", "D", "E", "F", "G", "H", "I", "J", "K", "L", "M",
     "N", "O", "P", "Q", "R", "S", "T", "U", "V", "W", "X", "Y", "Z"}

\* the classifier of the running program was applied to frame
Classified == predicted_char # ""

\* C15 (as stated): for every coarse pair in 0..7 x 0..7 and every 21-point
\* landmark list the classifier returns a letter A-Z, " " or "next", in both
\* programs.
C15_ClassifierReturnsToken ==
    Classified => predicted_char \in ascii_uppercase \cup {" ", "next"}

\* the thumb-position conditions of bucket 0, in the priority order A, E, M, N
ThumbLeftOfKnuckles(pts) ==
    pts[4][1] < pts[6][1] /\ pts[4][1] < pts[10][1] /\ pts[4][1] < pts[14][1] /\ pts[4][1] < pts[18][1]
ThumbBelowTips(pts) ==
    pts[4][2] > pts[8][2] /\ pts[4][2] > pts[12][2] /\ pts[4][2] > pts[16][2] /\ pts[4][2] > pts[20][2]
ThumbRightOfThree(pts) ==
    pts[4][1] > pts[6][1] /\ pts[4][1] > pts[10][1] /\ pts[4][1] > pts[14][1] /\ pts[4][2] < pts[18][2]
ThumbRightOfTwo(pts) ==
    pts[4][1] > pts[6][1] /\ pts[4][1] > pts[10][1] /\ pts[4][2] < pts[18][2] /\ pts[4][2] < pts[14][2]

\* C17 (as stated): when the final bucket is 0 the letter is the one of the
\* first condition that holds in the order A, E, M, N, with default S: a later
\* condition never overrides an earlier one, and the letter is one of S, A,
\* E, M, N, in both programs.
C17_Bucket0FirstMatchWins ==
    (Classified /\ final_bucket = 0)
    => /\ group_char \in {"S", "A", "E", "M", "N"}
       /\ group_char = (IF ThumbLeftOfKnuckles(frame.pts) THEN "A"
                        ELSE IF ThumbBelowTips(frame.pts) THEN "E"
                        ELSE IF ThumbRightOfThree(frame.pts) THEN "M"
                        ELSE IF ThumbRightOfTwo(frame.pts) THEN "N"
                        ELSE "S")

\* C18: buckets 2, 3 and 7 compare a fingertip distance strictly with 42, 72
\* and 42: C iff dist(pts[12], pts[4]) > 42 else O, G iff dist(pts[8], pts[12])
\* > 72 else H, Y iff dist(pts[8], pts[4]) > 42 else J; a squared distance of
\* exactly 1764 (5184) gives O, J (H); C, O, G, H and J are the token returned,
\* in both programs.
C18_StrictDistanceThresholds ==
    Classified =>
        /\ final_bucket = 2 =>
              /\ group_char = (IF DistSq(frame.pts[12], frame.pts[4]) > 1764 THEN "C" ELSE "O")
              /\ predicted_char = group_char
        /\ final_bucket = 3 =>
              /\ group_char = (IF DistSq(frame.pts[8], frame.pts[12]) > 5184 THEN "G" ELSE "H")
              /\ predicted_char = group_char
        /\ final_bucket = 7 =>
              /\ group_char = (IF DistSq(frame.pts[8], frame.pts[4]) > 1764 THEN "Y" ELSE "J")
              /\ group_char = "J" => predicted_char = "J"

\* C18 witness: the desktop classifier settled on bucket 2 for a frame whose
\* thumb tip is exactly 42 from the middle tip, and returned O
C18_Witness ==
    /\ app = "desktop"
    /\ final_bucket = 2
    /\ DistSq(frame.pts[12], frame.pts[4]) = 1764
    /\ predicted_char = "O"

\* the finger-extended vector of the claims: a finger is extended iff its tip
\* is above its knuckle in image y
Extended(pts) ==
    <<pts[8][2] < pts[6][2], pts[12][2] < pts[10][2],
      pts[16][2] < pts[14][2], pts[20][2] < pts[18][2]>>

\* C19 (as stated): when the final bucket is 1 the vector 1111 gives B, 1000
\* gives D, 0111 gives F, 0001 gives I and 1110 gives W, in both programs.
C19_FingerVectorLetters ==
    (Classified /\ final_bucket = 1)
    => LET e == Extended(frame.pts)
       IN  /\ e = <<TRUE, TRUE, TRUE, TRUE>> => group_char = "B"
           /\ e = <<TRUE, FALSE, FALSE, FALSE>> => group_char = "D"
           /\ e = <<FALSE, TRUE, TRUE, TRUE>> => group_char = "F"
           /\ e = <<FALSE, FALSE, FALSE, TRUE>> => group_char = "I"
           /\ e = <<TRUE, TRUE, TRUE, FALSE>> => group_char = "W"

\* C20 (as stated): when the final bucket is 1 and the vector is 1100, the
\* letter is R whenever the index tip is right of the middle tip, and one of
\* U, V, K otherwise, in both programs.
C20_CrossedFingersGiveR ==
    (/\ Classified
     /\ final_bucket = 1
     /\ Extended(frame.pts) = <<TRUE, TRUE, FALSE, FALSE>>)
    => IF frame.pts[8][1] > frame.pts[12][1]
       THEN group_char = "R"
       ELSE group_char \in {"U", "V", "K"}

\* C13 (as stated): a web tick on a frame whose landmark list has fewer than
\* 21 points does not invoke the classifier and leaves prev_char, count,
\* ten_prev_char and recognized_text unchanged.
C13_ShortLandmarksLeaveState ==
    [][(/\ app = "web"
        /\ last'.op \in {"tick", "nohand", "fault"}
        /\ frame'.hand
        /\ Cardinality(DOMAIN frame'.pts) < 21)
       => /\ predicted_char' = ""
          /\ UNCHANGED <<prev_char, count, ten_prev_char, recognized_text>>]_vars

\* the last frame raised an exception in classification, accumulation or the
\* dictionary lookup
Faulted ==
    \/ last.op = "fault"
    \/ last.op = "tick" /\ last.tok = "PRED_ERROR"
    \/ last.op = "tick" /\ last.raised

\* C16: after a frame on which classification or accumulation raised, the
\* tick loop is still scheduled, in both programs.
C16_LoopSurvivesFault == Faulted => loop = "scheduled"

\* C16 witness: the web loop processed a frame as an ordinary tick right
\* after the tick of a frame on which the CNN or the rules raised
C16_Witness ==
    /\ app = "web"
    /\ loop = "scheduled"
    /\ last.op = "tick"
    /\ last.tok = "A"
    /\ count >= 1
    /\ ten_prev_char[(count - 1) % HistLen] = "PRED_ERROR"
    /\ ten_prev_char[count % HistLen] = "A"

\* C14 (as stated): the web recognizer's state is never accessed by two
\* threads at once: while the stream thread is inside
\* update_text_with_character, the request thread is not inside clear_text or
\* apply_word_suggestion.
C14_OneThreadAtATime == ~(pc["stream"] # "idle" /\ pc["request"] # "idle")

\* the "next" pose: thumb tip left of the index knuckle and the four finger
\* tests of the claims all true
NextPose(pts) ==
    /\ pts[4][1] < pts[5][1]
    /\ pts[6][2] > pts[8][2]
    /\ pts[10][2] > pts[12][2]
    /\ pts[14][2] > pts[16][2]
    /\ pts[18][2] > pts[20][2]

\* C21: the classifier returns "next" exactly when the letter of the bucket
\* mapping is E, Y or B and the hand is in the "next" pose, in both programs.
C21_NextExactlyOnPose ==
    Classified =>
        (predicted_char = "next" <=>
            (group_char \in {"E", "Y", "B"} /\ NextPose(frame.pts)))

\* C21 witness: the desktop classifier resolved E and returned "next"
C21_Witness ==
    /\ app = "desktop"
    /\ group_char = "E"
    /\ NextPose(frame.pts)
    /\ predicted_char = "next"

\* the space pose of the claims: index and pinky extended, middle and ring not
SpacePose(pts) ==
    /\ pts[6][2] > pts[8][2]
    /\ pts[10][2] < pts[12][2]
    /\ pts[14][2] < pts[16][2]
    /\ pts[18][2] > pts[20][2]

\* C22 (as stated): the classifier returns " " only when the value resolved
\* before the override is E, S, X, Y, B or an unresolved bucket 1 and the hand
\* is in the space pose, and that gate decides the override in both programs.
C22_SpaceOnlyOnPose ==
    Classified =>
        (predicted_char = " " <=>
            (group_char \in {"E", "S", "X", "Y", "B", Int1} /\ SpacePose(frame.pts)))

\* a step of the cascade: block cascade.rule is evaluated
CascadeStepTaken == cascade.rule \in 1..NumRules /\ cascade' # cascade

\* C23 (as stated): every block of the desktop cascade is evaluated in source
\* order with no early exit, each against the pair (current ch1, original
\* ch2), never against a stale ch1; ch2 is never modified and ch1 is in 0..7
\* when the cascade ends.
C23_EveryRuleSeesCurrentPair ==
    [][CascadeStepTaken =>
          /\ cascade'.rule = cascade.rule + 1
          /\ cascade'.pl = <<cascade.ch1, frame.pl[2]>>
          /\ cascade'.ch2 = frame.pl[2]
          /\ cascade'.ch1 \in 0..7]_vars

\* C23 (amended): every block is evaluated in source order with no early exit;
\* blocks 3 to 35 test the pair (current ch1, original ch2); block 2 tests
\* the pair computed before block 1, which decides as the current pair would;
\* ch2 is never modified, ch1 stays in 0..7, and the class at the end is the
\* one DesktopBucket computes.
C23_SecondRuleSeesOriginalPair ==
    [][CascadeStepTaken =>
          /\ cascade'.rule = cascade.rule + 1
          /\ cascade'.pl = IF cascade.rule = 2 THEN frame.pl
                                              ELSE <<cascade.ch1, frame.pl[2]>>
          /\ cascade'.ch1 = CascadeRule(cascade.rule, <<cascade.ch1, frame.pl[2]>>,
                                        cascade.ch1, frame.pts)
          /\ cascade'.ch2 = frame.pl[2]
          /\ cascade'.ch1 \in 0..7
          /\ cascade'.rule = NumRules + 1 =>
                 cascade'.ch1 = DesktopBucket(frame.pl[1], frame.pl[2], frame.pts)]_vars

\* C23 witness: block 1 changed ch1 and block 2 was tested against the pair
\* of line 480
C23_Witness ==
    /\ cascade.rule = 3
    /\ cascade.pl = frame.pl
    /\ cascade.ch1 # frame.pl[1]

\* C24 (as stated): on every coarse pair and every 21-point landmark list the
\* web _apply_gesture_rules returns the token the classification part of the
\* desktop predict returns.
C24_WebEqualsDesktop ==
    Classified =>
        /\ app = "web" =>
               predicted_char = DesktopClassify(frame.pl[1], frame.pl[2], frame.pts)
        /\ app = "desktop" =>
               predicted_char = apply_gesture_rules(frame.pl[1], frame.pl[2], frame.pts)

\* the token of a frame, computed from the frame alone
TokenOf(program, f) ==
    IF program = "web"
    THEN predict_gesture(f.pl[1], f.pl[2], f.pts)
    ELSE DesktopClassify(f.pl[1], f.pl[2], f.pts)

MaxSpeak == 3

\* clear_speech_queue() calls of one run
MaxClears == 1

\* speak_immediately() calls of one run
MaxImmediate == 1

\* Queue() is built without a maxsize: queue.Queue reads maxsize <= 0 as no limit
maxsize == 0

\* clean_text keeps at most this many characters
MaxSpeechLen == 1000

\* the texts handed to speak()
SpeechTexts ==
    { << >>, <<" ">>, <<"#">>, <<"a">>, <<"b", "#">>, <<" ", "a", " ", " ", "b">> }

\* the characters of s at the positions keep accepts, from position i on
RECURSIVE KeptFrom(_, _, _)
KeptFrom(s, keep, i) ==
    IF i > Len(s) THEN << >>
    ELSE (IF i \in keep THEN <<s[i]>> ELSE << >>) \o KeptFrom(s, keep, i + 1)

\* ' '.join(text.split()): runs of blanks become one blank, none at either end
SplitJoin(s) ==
    KeptFrom(s, {i \in 1..Len(s) :
                    \/ s[i] # " "
                    \/ /\ i > 1
                       /\ s[i - 1] # " "
                       /\ \E j \in (i + 1)..Len(s) : s[j] # " "}, 1)

\* c.isalnum() or c.isspace() or c in '.,!?'
SpeechChar(c) ==
    c \in {"a", "b"} \/ c = " " \/ c \in {".", ",", "!", "?"}

\* str.strip()
Strip(s) ==
    KeptFrom(s, {i \in 1..Len(s) :
                    /\ \E j \in 1..i : s[j] # " "
                    /\ \E j \in i..Len(s) : s[j] # " "}, 1)

\* clean_text
clean_text(text) ==
    IF text = << >> THEN << >>
    ELSE LET joined == SplitJoin(text)
             kept   == KeptFrom(joined, {i \in 1..Len(joined) : SpeechChar(joined[i])}, 1)
             cut    == IF Len(kept) > MaxSpeechLen
                       THEN SubSeq(kept, 1, MaxSpeechLen) \o <<".", ".", ".">>
                       ELSE kept
         IN  Strip(cut)

\* what speak() puts on the queue, << >> when it returns False
SpeakAccepts(text) ==
    IF text = << >> \/ Strip(text) = << >> THEN << >> ELSE clean_text(text)

\* Queue.get hands out the oldest item
QueueGet_Newest(q) ==
    [item |-> q[Len(q)], rest |-> SubSeq(q, 1, Len(q) - 1)]

QueueGet(q) ==
    [item |-> Head(q), rest |-> Tail(q)]

\* Queue.put never blocks a queue that has no maxsize
QueueHasRoom(q) ==
    maxsize <= 0 \/ Len(q) < maxsize

\* SpeechSynthesis(): the engine may fail to initialise, the worker is started
InitSpeech ==
    /\ Constructed
    /\ app = "web"
    /\ dictionary = TRUE
    /\ frame = NoFrame
    /\ server = NoServer
    /\ users = NoUsers
    /\ \E ok \in BOOLEAN :
        speech = [NoSpeech EXCEPT !.engine = ok, !.worker = "loop", !.lost = ~ok]
    /\ speech.engine \in BOOLEAN

speechFixed ==
    <<app, dictionary, last, accVars, frame, final_bucket, group_char, predicted_char,
      loop, pc, cascade, server, users>>

\* speak(text): refuse blank text, else put the cleaned text on the queue
Speak ==
    /\ speech.caller = "idle"
    /\ speech.calls < MaxSpeak
    /\ \E text \in SpeechTexts :
        LET clean == SpeakAccepts(text) IN
        IF clean = << >>
        THEN speech' = [speech EXCEPT !.calls = @ + 1]
        ELSE /\ QueueHasRoom(speech.speech_queue)
             /\ speech' = [speech EXCEPT !.calls = @ + 1,
                                         !.speech_queue = Append(@, clean),
                                         !.accepted = Append(@, clean)]
    /\ UNCHANGED speechFixed

\* clear_speech_queue() is entered
ClearSpeechQueue ==
    /\ speech.caller = "idle"
    /\ speech.clears < MaxClears
    /\ speech' = [speech EXCEPT !.caller = "clearing", !.clears = @ + 1]
    /\ UNCHANGED speechFixed

\* one turn of  while not empty(): get_nowait(); task_done()
ClearStep ==
    /\ speech.caller \in {"clearing", "shutdown clearing"}
    /\ IF speech.speech_queue # << >>
       THEN speech' = [speech EXCEPT !.speech_queue = Tail(@)]
       ELSE speech' = [speech EXCEPT
                          !.caller = IF @ = "clearing" THEN "idle" ELSE "shutdown engine"]
    /\ UNCHANGED speechFixed

\* shutdown(): stop_flag.set(), then the queue is cleared
Shutdown ==
    /\ speech.caller = "idle"
    /\ ~speech.shut
    /\ speech' = [speech EXCEPT !.stop_flag = TRUE, !.shut = TRUE,
                                !.caller = "shutdown clearing"]
    /\ UNCHANGED speechFixed

\* shutdown(): the join gives up after two seconds, then engine = None
ShutdownEngine ==
    /\ speech.caller = "shutdown engine"
    /\ speech' = [speech EXCEPT !.engine = FALSE, !.lost = TRUE, !.down = TRUE,
                                !.caller = "idle"]
    /\ UNCHANGED speechFixed

\* speak_immediately(text): refuse blank text, stop_current_speech, clean the text
\* and enter _speak_text in the caller's own thread
SpeakImmediately ==
    /\ speech.caller = "idle"
    /\ speech.immediates < MaxImmediate
    /\ \E text \in SpeechTexts :
        speech' = [speech EXCEPT !.immediates = @ + 1,
                                 !.caller = IF SpeakAccepts(text) = << >>
                                            THEN "idle" ELSE "immediate"]
    /\ UNCHANGED speechFixed

\* _speak_text in the caller's thread: if not self.engine: return; is_speaking = True
ImmediateSpeak ==
    /\ speech.caller = "immediate"
    /\ IF speech.engine
       THEN speech' = [speech EXCEPT !.is_speaking = TRUE, !.caller = "immediate say"]
       ELSE speech' = [speech EXCEPT !.caller = "idle"]
    /\ UNCHANGED speechFixed

\* _speak_text in the caller's thread: stop, say and runAndWait return and the
\* finally clause runs, or one of them raises and reinitialize_engine begins
ImmediateSay ==
    /\ speech.caller = "immediate say"
    /\ \E raises \in BOOLEAN :
        IF raises
        THEN speech' = [speech EXCEPT !.engine = FALSE, !.lost = TRUE,
                                      !.caller = "immediate reinit"]
        ELSE speech' = [speech EXCEPT !.is_speaking = FALSE, !.caller = "idle"]
    /\ UNCHANGED speechFixed

\* reinitialize_engine in the caller's thread, then the finally clause
ImmediateReinit ==
    /\ speech.caller = "immediate reinit"
    /\ \E ok \in BOOLEAN :
        speech' = [speech EXCEPT !.engine = ok, !.is_speaking = FALSE, !.caller = "idle"]
    /\ UNCHANGED speechFixed


\* mutant of WorkerLoop: the loop does not test the stop flag
WorkerLoop_IgnoresFlag ==
    /\ speech.worker = "loop"
    /\ speech' = [speech EXCEPT !.worker = "get"]
    /\ UNCHANGED speechFixed

\* _speech_worker: while not self.stop_flag.is_set()
WorkerLoop ==
    /\ speech.worker = "loop"
    /\ speech' = [speech EXCEPT !.worker = IF speech.stop_flag THEN "exited" ELSE "get"]
    /\ UNCHANGED speechFixed

\* _speech_worker: speech_queue.get(timeout=1.0), queue.Empty goes round the loop
WorkerGet ==
    /\ speech.worker = "get"
    /\ IF speech.speech_queue # << >>
       THEN LET got == QueueGet(speech.speech_queue) IN
            speech' = [speech EXCEPT !.speech_queue = got.rest, !.speech_text = got.item,
                                     !.worker = "speak"]
       ELSE speech' = [speech EXCEPT !.worker = "loop"]
    /\ UNCHANGED speechFixed

\* _speech_worker: if speech_text and self.engine, and _speak_text up to is_speaking = True
WorkerSpeak ==
    /\ speech.worker = "speak"
    /\ IF speech.speech_text # << >> /\ speech.engine
       THEN speech' = [speech EXCEPT !.is_speaking = TRUE, !.worker = "say"]
       ELSE speech' = [speech EXCEPT !.worker = "task_done"]
    /\ UNCHANGED speechFixed

\* _speak_text: self.engine.stop() and self.engine.say(text) return, or one of them
\* raises (it does when engine is None by now) and reinitialize_engine sets engine = None
WorkerSay ==
    /\ speech.worker = "say"
    /\ \E raises \in (IF speech.engine THEN BOOLEAN ELSE {TRUE}) :
        IF raises
        THEN speech' = [speech EXCEPT !.engine = FALSE, !.lost = TRUE, !.worker = "reinit"]
        ELSE speech' = [speech EXCEPT !.worker = "run", !.late = @ \/ speech.down]
    /\ UNCHANGED speechFixed

\* _speak_text: engine.runAndWait() returns and the finally clause runs, or it raises
\* and reinitialize_engine sets engine = None
WorkerRun ==
    /\ speech.worker = "run"
    /\ \E raises \in BOOLEAN :
        IF raises
        THEN speech' = [speech EXCEPT !.engine = FALSE, !.lost = TRUE, !.worker = "reinit"]
        ELSE speech' = [speech EXCEPT !.spoken = Append(@, speech.speech_text),
                                      !.is_speaking = FALSE, !.worker = "task_done"]
    /\ UNCHANGED speechFixed

\* reinitialize_engine: initialize_engine succeeds or leaves engine = None; finally
WorkerReinit ==
    /\ speech.worker = "reinit"
    /\ \E ok \in BOOLEAN :
        speech' = [speech EXCEPT !.engine = ok, !.is_speaking = FALSE,
                                 !.worker = "task_done"]
    /\ UNCHANGED speechFixed

\* _speech_worker: speech_queue.task_done()
WorkerTaskDone ==
    /\ speech.worker = "task_done"
    /\ speech' = [speech EXCEPT !.speech_text = << >>, !.worker = "loop"]
    /\ UNCHANGED speechFixed

Worker ==
    \/ WorkerLoop
    \/ WorkerGet
    \/ WorkerSpeak
    \/ WorkerSay
    \/ WorkerRun
    \/ WorkerReinit
    \/ WorkerTaskDone

NextSpeech ==
    \/ Speak
    \/ ClearSpeechQueue
    \/ ClearStep
    \/ Shutdown
    \/ ShutdownEngine
    \/ Worker

SpecSpeech == InitSpeech /\ [][NextSpeech]_vars

\* the worker is a daemon thread of its own: it keeps being scheduled
SpecSpeechFair == SpecSpeech /\ WF_vars(Worker)

\* the worker thread and a request thread that calls speak and speak_immediately
NextImmediate ==
    \/ Speak
    \/ SpeakImmediately
    \/ ImmediateSpeak
    \/ ImmediateSay
    \/ ImmediateReinit
    \/ Worker

SpecImmediate == InitSpeech /\ [][NextImmediate]_vars


\* C27: the queue of pending utterances has a fixed capacity: however many speak()
\* calls a run makes, the number of queued utterances stays below that number.
C27_QueueBounded ==
    Len(speech.speech_queue) < MaxSpeak

\* the engine was never None, clear_speech_queue and shutdown were never called
Undisturbed ==
    ~speech.lost /\ speech.clears = 0 /\ ~speech.shut

\* the utterance the worker took off the queue and has not spoken yet
InFlight ==
    IF speech.worker \in {"speak", "say", "run"} THEN <<speech.speech_text>> ELSE << >>

\* C26: while the engine is available and neither clear_speech_queue nor shutdown is
\* called, the accepted utterances are, in the order of acceptance, those spoken once,
\* then the one in the worker's hands, then the queued ones; and under weak fairness
\* of the worker the n-th accepted utterance is eventually spoken.
C26_QueuedSpeechInOrder ==
    /\ [](Undisturbed =>
            speech.accepted = speech.spoken \o InFlight \o speech.speech_queue)
    /\ \A n \in 1..MaxSpeak :
          (Len(speech.accepted) >= n) ~> (Len(speech.spoken) >= n \/ ~Undisturbed)

\* C26 witness: two different utterances were spoken in the order of acceptance and a
\* third one, cleaned by speak, is still queued.
C26_Witness ==
    /\ Undisturbed
    /\ speech.spoken = <<(<<"a">>), (<<"b">>)>>
    /\ speech.speech_queue = <<(<<"a", " ", "b">>)>>
    /\ speech.accepted = speech.spoken \o speech.speech_queue


\* the tick just made was a rising-edge "next" whose lookback slot held "next":
\* the tick wrote slot count % 10 only, so the slot it looked back to is now
\* ten_prev_char[(count-3) % 10] and the slot of its fallback ten_prev_char[(count-1) % 10]
FellBack ==
    TickedEdge("next") /\ Slot(ten_prev_char, count - 3) = "next"

FallbackToken == Slot(ten_prev_char, count - 1)

\* C28 (as stated): on a rising-edge "next" whose lookback slot holds "next", the
\* token of ten_prev_char[count % 10] is appended iff it is not "Backspace", " " or
\* "next", and nothing else is appended or removed on that tick, in both accumulators.
C28_FallbackOnlyAppends ==
    FellBack =>
        OutputText = (IF FallbackToken \notin Special
                      THEN last.text \o TokChars(FallbackToken)
                      ELSE last.text)

\* C28 (amended): the same, except that the desktop accumulator strips the trailing
\* whitespace of the text before it appends the token; a text that gets no token
\* appended is left as it was.
C28_FallbackAppendsAfterStrip ==
    FellBack =>
        OutputText = (IF FallbackToken \notin Special
                      THEN (IF app = "web" THEN last.text ELSE RStrip(last.text))
                              \o TokChars(FallbackToken)
                      ELSE last.text)

\* C28 witness: the fallback appended the token of the previous tick, which differs
\* from the token of the tick before it
C28_Witness ==
    /\ FellBack
    /\ FallbackToken \in Letters
    /\ Slot(ten_prev_char, count - 2) \in Letters \ {FallbackToken}
    /\ OutputText = last.text \o <<FallbackToken>>


\* the tick just made was a rising-edge "next" whose lookback slot held "Backspace"
ConfirmedBackspace ==
    TickedEdge("next") /\ Slot(ten_prev_char, count - 3) = "Backspace"

C31_NoHandLeavesState ==
    [][(/\ frame'.fault = "none"
        /\ ~(frame'.hand /\ frame'.crop)
        /\ last'.op \in {"nohand", "tick", "fault"})
       => /\ last'.op = "nohand"
          /\ predicted_char' = ""
          /\ UNCHANGED <<prev_char, count, ten_prev_char, recognized_text, str,
                         word_suggestions, word1, word2, word3, word4>>]_vars

\* C31 witness: text was accumulated, a further tick is due, and the last frame
\* showed a hand that the cropped region did not show
C31_Witness ==
    /\ last.op = "nohand"
    /\ frame.hand
    /\ ~frame.crop
    /\ OutputText # << >>
    /\ count >= 3


\* every token either classifier returns on a frame of ClassifyFrames or TickFrames
\* that carries a full landmark list, and every token web predict_gesture returns
\* on a short one
ClassifierTokens ==
    {TokenOf(program, f) : program \in {"web", "desktop"}, f \in ClassifyFrames}
        \cup {predict_gesture(pl[1], pl[2], ShortList(ShortLandmarks)) : pl \in CoarsePairs}

\* C32: neither classifier returns "Backspace" on any frame; so over the ticks of web
\* process_frame "Backspace" is never the token, never in the history, the text
\* never gets shorter and no tick takes a Backspace branch of the accumulator.
C32_NoBackspaceToken ==
    /\ []("Backspace" \notin ClassifierTokens)
    /\ [](/\ predicted_char # "Backspace"
          /\ prev_char # "Backspace"
          /\ \A i \in 0..(HistLen - 1) : ten_prev_char[i] # "Backspace")
    /\ [][(app = "web" /\ last'.op \in {"tick", "nohand", "fault"})
            => /\ Len(recognized_text') >= Len(recognized_text)
               /\ SubSeq(recognized_text', 1, Len(recognized_text)) = recognized_text]_vars

\* C32 witness: the web text grew over several ticks, the last of which confirmed
\* a letter
C32_Witness ==
    /\ app = "web"
    /\ TickedEdge("next")
    /\ Len(recognized_text) > Len(last.text)
    /\ Len(fed) = MaxFrames


\* C33: after any sequence of web process_frame ticks, faulted ones included, the
\* recognized text holds only the letters A-Z and spaces.
C33_WebTextLettersAndSpaces ==
    app = "web" =>
        \A i \in 1..Len(recognized_text) :
            recognized_text[i] \in ascii_uppercase \cup {" "}


\* ---------------------------------------------------------------------------
\* webapp/app.py: the stream thread inside generate_video_frames and a request
\* thread inside /api/text/clear or /api/recognition/status
\* ---------------------------------------------------------------------------

\* frames of one run of the stream
MaxStreamTicks == 4

\* a user is logged in, the camera is open and recognition was started
InitClear ==
    /\ app = "web"
    /\ dictionary = TRUE
    /\ frame = NoFrame
    /\ Constructed
    /\ speech = NoSpeech
    /\ users = NoUsers
    /\ server = [NoServer EXCEPT !.session = TRUE, !.camera = TRUE,
                                 !.camera_active = TRUE, !.recognition_active = TRUE]

clearFixed ==
    <<frame, final_bucket, group_char, predicted_char, loop, cascade, speech, users>>

\* generate_video_frames, line 347, and process_frame, lines 399-406: the results
\* dictionary is built from the recognizer's fields
StreamFrame ==
    /\ pc["stream"] = "idle"
    /\ Len(fed) < MaxStreamTicks
    /\ server.camera_active /\ server.recognition_active
    /\ server' = [server EXCEPT !.results = recognized_text]
    /\ pc' = [pc EXCEPT !["stream"] = "update"]
    /\ UNCHANGED <<app, dictionary, tickVars, last, clearFixed>>

\* process_frame, lines 408-449: with a hand in the frame the token is accumulated
\* and the results dictionary takes the new sentence
StreamUpdate ==
    /\ pc["stream"] = "update"
    /\ pc' = [pc EXCEPT !["stream"] = "publish"]
    /\ \/ /\ UNCHANGED <<app, dictionary, tickVars, last, server>>
       \/ \E character \in ThreadTokens :
            \E raises \in WebRaises(WebAccumulate(recognized_text, prev_char, count,
                                                   ten_prev_char, character)) :
                /\ WebUpdate(character, raises)
                /\ server' = [server EXCEPT
                                 !.results = recognized_text',
                                 !.since = IF server.cleared
                                           THEN @ + Len(recognized_text') - Len(recognized_text)
                                           ELSE @]
    /\ UNCHANGED clearFixed

\* generate_video_frames, line 350: recognition_results.update(results)
StreamPublish ==
    /\ pc["stream"] = "publish"
    /\ server' = [server EXCEPT !.sentence = server.results]
    /\ pc' = [pc EXCEPT !["stream"] = "idle"]
    /\ UNCHANGED <<app, dictionary, tickVars, last, clearFixed>>

\* /api/text/clear, lines 291-292: recognition_results['sentence'] = ''
ClearResults ==
    /\ pc["request"] = "idle"
    /\ server.session
    /\ ~server.cleared
    /\ server' = [server EXCEPT !.sentence = << >>]
    /\ pc' = [pc EXCEPT !["request"] = "clear"]
    /\ UNCHANGED <<app, dictionary, tickVars, last, clearFixed>>

\* /api/text/clear, line 295: recognizer.clear_text(), and the response is returned
ClearRecognizer ==
    /\ pc["request"] = "clear"
    /\ recognized_text' = << >>
    /\ current_word' = << >>
    /\ word_suggestions' = BlankSuggestions
    /\ prev_char' = ""
    /\ count' = -1
    /\ ten_prev_char' = EmptyHistory
    /\ last' = Op("clear", "", << >>, recognized_text, FALSE)
    /\ server' = [server EXCEPT !.cleared = TRUE, !.since = 0]
    /\ pc' = [pc EXCEPT !["request"] = "idle"]
    /\ UNCHANGED <<app, dictionary, fed, applied, desktopVars, clearFixed>>

\* /api/recognition/status: the response carries recognition_results
RecognitionStatus ==
    /\ pc["request"] = "idle"
    /\ server.session
    /\ server' = [server EXCEPT !.reported = server.sentence, !.asked = server.cleared]
    /\ UNCHANGED <<app, dictionary, tickVars, last, pc, clearFixed>>

NextClear ==
    \/ StreamFrame
    \/ StreamUpdate
    \/ StreamPublish
    \/ ClearResults
    \/ ClearRecognizer
    \/ RecognitionStatus

SpecClear == InitClear /\ [][NextClear]_vars

\* C34: once /api/text/clear has returned, a /api/recognition/status response holds
\* no more characters than were accumulated since: nothing from before the clear.
C34_ClearAtomic ==
    server.asked => Len(server.reported) <= server.since


\* ---------------------------------------------------------------------------
\* webapp/app.py: the camera and recognition routes, one request at a time
\* ---------------------------------------------------------------------------

\* requests of one run
MaxRequests == 10

InitCamera ==
    /\ app = "web"
    /\ dictionary = TRUE
    /\ frame = NoFrame
    /\ Constructed
    /\ speech = NoSpeech
    /\ users = NoUsers
    /\ server = NoServer

cameraFixed ==
    <<app, dictionary, tickVars, last, frame, final_bucket, group_char, predicted_char,
      loop, pc, cascade, speech, users>>

\* the response of a request: jsonify({'success': ok, ...})
Responded(s, ok) == [s EXCEPT !.requests = @ + 1, !.success = ok]

\* release_camera(): camera.release(), camera = None, camera_active = False
release_camera(s) == [s EXCEPT !.camera = FALSE, !.camera_active = FALSE]

\* /login with the right password: session['user_id'] = username
Login ==
    /\ server.requests < MaxRequests
    /\ server' = Responded([server EXCEPT !.session = TRUE], TRUE)
    /\ UNCHANGED cameraFixed

\* /logout: session.clear() when a user is logged in, then release_camera()
Logout ==
    /\ server.requests < MaxRequests
    /\ server' = Responded(release_camera([server EXCEPT !.session = FALSE]), TRUE)
    /\ UNCHANGED cameraFixed

\* /api/camera/start: get_camera(), and camera_active = True when it is opened
StartCamera ==
    /\ server.requests < MaxRequests
    /\ \E opened \in BOOLEAN :
        server' = IF ~server.session THEN Responded(server, FALSE)
                  ELSE IF opened
                  THEN Responded([server EXCEPT !.camera = TRUE, !.camera_active = TRUE], TRUE)
                  ELSE Responded([server EXCEPT !.camera = TRUE], FALSE)
    /\ UNCHANGED cameraFixed

\* /api/camera/stop: camera_active = False
StopCamera ==
    /\ server.requests < MaxRequests
    /\ server' = IF ~server.session THEN Responded(server, FALSE)
                 ELSE Responded([server EXCEPT !.camera_active = FALSE], TRUE)
    /\ UNCHANGED cameraFixed

\* /api/recognition/start: refused when the camera is not active
StartRecognition ==
    /\ server.requests < MaxRequests
    /\ server' = IF ~server.session \/ ~server.camera_active THEN Responded(server, FALSE)
                 ELSE Responded([server EXCEPT !.recognition_active = TRUE], TRUE)
    /\ UNCHANGED cameraFixed

\* /api/recognition/stop: recognition_active = False
StopRecognition ==
    /\ server.requests < MaxRequests
    /\ server' = IF ~server.session THEN Responded(server, FALSE)
                 ELSE Responded([server EXCEPT !.recognition_active = FALSE], TRUE)
    /\ UNCHANGED cameraFixed

\* /delete_account: on success session.clear() and release_camera()
DeleteAccount ==
    /\ server.requests < MaxRequests
    /\ \E deleted \in BOOLEAN :
        server' = IF ~server.session \/ ~deleted THEN Responded(server, FALSE)
                  ELSE Responded(release_camera([server EXCEPT !.session = FALSE]), TRUE)
    /\ UNCHANGED cameraFixed

NextCamera ==
    \/ Login
    \/ Logout
    \/ StartCamera
    \/ StopCamera
    \/ StartRecognition
    \/ StopRecognition
    \/ DeleteAccount

SpecCamera == InitCamera /\ [][NextCamera]_vars

\* C35: in the web app recognition is active only while the camera is active.
C35_RecognitionNeedsCamera ==
    server.recognition_active => server.camera_active


\* a thread is between is_speaking = True and the finally clause of _speak_text,
\* inside engine.stop(), say() or runAndWait()
WorkerInSay == speech.worker \in {"say", "run"}
CallerInSay == speech.caller = "immediate say"

\* C36: is_speaking is True whenever some thread is inside the say/runAndWait section
\* of _speak_text, and at most one thread is inside it at a time.
C36_OneSpeakerAtATime ==
    /\ (WorkerInSay \/ CallerInSay) => speech.is_speaking
    /\ ~(WorkerInSay /\ CallerInSay)


\* C37: once shutdown() has returned the engine stays None and no utterance is
\* started, whatever the worker was doing when shutdown began.
C37_ShutdownIsFinal ==
    speech.down => (~speech.engine /\ ~speech.late)


\* C38: once shutdown() has set the stop flag the worker thread, under weak fairness
\* and with every engine call returning or raising, leaves its loop and terminates;
\* an empty queue does not hold it.
C38_WorkerTerminates ==
    speech.stop_flag ~> speech.worker = "exited"

\* C38 witness: the worker has left its loop after a shutdown that found it inside
\* _speak_text with an empty queue behind it
C38_Witness ==
    /\ speech.worker = "exited"
    /\ speech.down
    /\ speech.speech_queue = << >>
    /\ Len(speech.spoken) = 1
    /\ speech.lost


\* ---------------------------------------------------------------------------
\* UserAuthentication (webapp/user_auth.py). users.users is self.users, a map
\* from username to the stored record; users.file is the content of users.json;
\* users.success is the first component of the last call's return value and
\* users.before the map as it was when that call began. Strings are sequences
\* of characters.
\* ---------------------------------------------------------------------------
MaxUserCalls == 3

None == <<"None">>

AsciiLower ==
    {"a", "b", "c", "d", "e", "f", "g", "h", "i", "j", "k", "l", "m",
     "n", "o", "p", "q", "r", "s", "t", "u", "v", "w", "x", "y", "z"}
AsciiUpper ==
    {"A", "B", "C", "D", "E", "F", "G", "H", "I", "J", "K", "L", "M",
     "N", "O", "P", "Q", "R", "S", "T", "U", "V", "W", "X", "Y", "Z"}
AsciiDigit == {"0", "1", "2", "3", "4", "5", "6", "7", "8", "9"}
AsciiLetter == AsciiLower \cup AsciiUpper

\* hashlib.sha256(password.encode()).hexdigest(): a digest that differs from the
\* password and is distinct for distinct passwords
hash_password(password) == <<"sha256">> \o password

\* ^[a-zA-Z0-9._%+-]+@[a-zA-Z0-9.-]+\.[a-zA-Z]{2,}$
validate_email(email) ==
    \E at \in 2..Len(email) : \E dot \in (at + 2)..Len(email) :
        /\ \A i \in 1..(at - 1) :
              email[i] \in AsciiLetter \cup AsciiDigit \cup {".", "_", "%", "+", "-"}
        /\ email[at] = "@"
        /\ \A i \in (at + 1)..(dot - 1) :
              email[i] \in AsciiLetter \cup AsciiDigit \cup {".", "-"}
        /\ email[dot] = "."
        /\ Len(email) - dot >= 2
        /\ \A i \in (dot + 1)..Len(email) : email[i] \in AsciiLetter

validate_username(username) ==
    /\ Len(username) >= 3
    /\ Len(username) <= 20
    /\ username # << >>
    /\ \A i \in 1..Len(username) : username[i] \in AsciiLetter \cup AsciiDigit \cup {"_"}

validate_password(password) ==
    /\ Len(password) >= 6
    /\ \E i \in 1..Len(password) : password[i] \in AsciiLetter
    /\ \E i \in 1..Len(password) : password[i] \in AsciiDigit

\* the outcome of a call: the map it leaves, its success flag, and whether
\* save_users wrote the file
Outcome(u, ok, wrote) == [users |-> u, success |-> ok, wrote |-> wrote]

register_user(u, username, email, password, full_name, saved) ==
    IF username = << >> \/ email = << >> \/ password = << >> THEN Outcome(u, FALSE, FALSE)
    ELSE IF ~validate_username(username) THEN Outcome(u, FALSE, FALSE)
    ELSE IF ~validate_email(email) THEN Outcome(u, FALSE, FALSE)
    ELSE IF ~validate_password(password) THEN Outcome(u, FALSE, FALSE)
    ELSE IF username \in DOMAIN u THEN Outcome(u, FALSE, FALSE)
    ELSE IF \E n \in DOMAIN u : u[n].email = email THEN Outcome(u, FALSE, FALSE)
    ELSE LET user_data == [email |-> email, password |-> hash_password(password),
                           full_name |-> full_name]
             added == [n \in DOMAIN u \cup {username} |->
                          IF n = username THEN user_data ELSE u[n]]
         IN  IF saved THEN Outcome(added, TRUE, TRUE)
             ELSE Outcome([n \in DOMAIN added \ {username} |-> added[n]], FALSE, FALSE)

change_password(u, username, current_password, new_password, saved) ==
    IF username \notin DOMAIN u THEN Outcome(u, FALSE, FALSE)
    ELSE IF u[username].password # hash_password(current_password)
    THEN Outcome(u, FALSE, FALSE)
    ELSE IF ~validate_password(new_password) THEN Outcome(u, FALSE, FALSE)
    ELSE Outcome([u EXCEPT ![username].password = hash_password(new_password)],
                 saved, saved)

delete_account(u, username, password, saved) ==
    IF username \notin DOMAIN u THEN Outcome(u, FALSE, FALSE)
    ELSE IF u[username].password # hash_password(password) THEN Outcome(u, FALSE, FALSE)
    ELSE Outcome([n \in DOMAIN u \ {username} |-> u[n]], saved, saved)

update_user_profile(u, username, full_name, email, saved) ==
    IF username \notin DOMAIN u THEN Outcome(u, FALSE, FALSE)
    ELSE LET named   == full_name # None /\ Strip(full_name) # << >>
             u1      == IF named THEN [u EXCEPT ![username].full_name = Strip(full_name)]
                        ELSE u
             mailed  == email # None /\ Strip(email) # << >>
             u2      == IF mailed THEN [u1 EXCEPT ![username].email = Strip(email)]
                        ELSE u1
         IN  IF mailed /\ ~validate_email(email) THEN Outcome(u1, FALSE, FALSE)
             ELSE IF mailed /\ \E n \in DOMAIN u1 : u1[n].email = email /\ n # username
             THEN Outcome(u1, FALSE, FALSE)
             ELSE IF named \/ mailed THEN Outcome(u2, saved, saved)
             ELSE Outcome(u2, FALSE, FALSE)

Usernames == {<<"a", "n", "n">>, <<"b", "o", "b">>, <<"a", "l">>}
Emails == {<<"a", "@", "x", ".", "i", "o">>, <<"b", "@", "x", ".", "i", "o">>,
           <<"b", "a", "d">>}
Passwords == {<<"p", "a", "s", "s", "1", "2">>, <<"p", "a", "s", "s", "3", "4">>,
              <<"s", "h", "o", "r", "t">>}
FullNames == {<< >>, <<" ">>, <<"Z", "e", "d">>}

InitUsers ==
    /\ app = "web"
    /\ dictionary = TRUE
    /\ frame = NoFrame
    /\ Constructed
    /\ speech = NoSpeech
    /\ server = NoServer
    /\ users = NoUsers

usersFixed ==
    <<app, dictionary, tickVars, last, frame, final_bucket, group_char, predicted_char,
      loop, pc, cascade, speech, server>>

Returned(r) ==
    /\ users.calls < MaxUserCalls
    /\ users' = [users    |-> r.users,
                 file     |-> IF r.wrote THEN r.users ELSE users.file,
                 calls    |-> users.calls + 1,
                 success  |-> r.success,
                 before   |-> users.users]
    /\ UNCHANGED usersFixed

RegisterUser ==
    \E username \in Usernames, email \in Emails, password \in Passwords,
       full_name \in FullNames \ {<<" ">>}, saved \in BOOLEAN :
        Returned(register_user(users.users, username, email, password, full_name, saved))

ChangePassword ==
    \E username \in Usernames, current_password \in Passwords, new_password \in Passwords,
       saved \in BOOLEAN :
        Returned(change_password(users.users, username, current_password, new_password,
                                 saved))

DeleteUserAccount ==
    \E username \in Usernames, password \in Passwords, saved \in BOOLEAN :
        Returned(delete_account(users.users, username, password, saved))

UpdateUserProfile ==
    \E username \in Usernames, full_name \in FullNames \cup {None},
       email \in Emails \cup {None}, saved \in BOOLEAN :
        Returned(update_user_profile(users.users, username, full_name, email, saved))

NextUsers ==
    \/ RegisterUser
    \/ ChangePassword
    \/ DeleteUserAccount
    \/ UpdateUserProfile

SpecUsers == InitUsers /\ [][NextUsers]_vars

\* C39: whenever register_user, change_password, delete_account or
\* update_user_profile returns success = False, the in-memory users map is exactly
\* what it was before the call.
C39_StoreUnchangedOnError ==
    ~users.success => users.users = users.before

=============================================================================
